---- MODULE Spec2Model ----
(***************************************************************************)
(* Room state synchronisation of the collaboration server                 *)
(* (server/src/server.ts, models/room.ts, utils/dbScheduler.ts).           *)
(*                                                                         *)
(* A handler is an async function: it runs synchronously up to its next    *)
(* await of the persistence layer, and other handlers run in between.      *)
(* Each action below is one such segment: the synchronous code after an    *)
(* await together with the store operation it issues next.  pc[c] is the   *)
(* position of the handler running for connection c, loc[c] its locals.    *)
(***************************************************************************)
EXTENDS Integers, Sequences, FiniteSets, TLC

\* ------------------------------------------------------------------ bounds
MaxJoins == 3
MaxFiles == 2
MaxEvents == 3

\* ------------------------------------------------------------- input sets
Conns == {1, 2, 3}
RoomIds == {"r1", "r2"}
Usernames == {"alice", "bob"}
ONLINE == "online"
OFFLINE == "offline"

\* ---------------------------------------------------------------- variables
VARIABLES
  conn,           \* conn[c]: "none" | "open" | "closed": the socket of connection c
  userSocketMap,  \* the presence registry: a sequence of User
  ioRooms,        \* ioRooms[r]: the sockets subscribed to broadcast group r
  rooms,          \* the Room collection of the store, by roomId
  userDocs,       \* the User collection of the store: userDocs[c] are the
                  \* documents with socketId c, in insertion order
  nextOid,        \* the number of the next ObjectId the store assigns
  now,            \* the clock, in days
  dbUp,           \* whether persistence calls succeed
  pc,             \* pc[c]: where connection c's handler is suspended
  loc,            \* loc[c]: the locals of connection c's handler
  emitted,        \* the messages sent by the last step, one per recipient
  unhandled,      \* whether a handler ended with an uncaught rejection
  sched,          \* where the cleanup run of the scheduler is suspended
  purged,         \* the roomIds the last cleanup run deleted
  nJoins,         \* join requests dispatched so far
  nEvents         \* tree, chat and drawing events dispatched so far

vars == <<conn, userSocketMap, ioRooms, rooms, userDocs, nextOid, now, dbUp,
          pc, loc, emitted, unhandled, sched, purged, nJoins, nEvents>>

\* ------------------------------------------------------------- identifiers
\* A node reference on the wire is a string.  Hex(n) is the 24-digit hex
\* string of ObjectId n, Uuid(n) a client-minted id (no valid ObjectId),
\* NullRef is null/undefined.  The store assigns ObjectIds from 1; Hex(0) is
\* a well-formed ObjectId string that names no stored node.
Hex(n) == [k |-> "hex", n |-> n]
Uuid(n) == [k |-> "uuid", n |-> n]
Oid(n) == [k |-> "oid", n |-> n]
NullRef == [k |-> "null", n |-> 0]

isValidObjectId(ref) == ref.k = "hex"
ObjectId(ref) == Oid(ref.n)
toString(oid) == IF oid.k = "oid" THEN Hex(oid.n) ELSE NullRef

\* ------------------------------------------------------------------- store
\* A room document; v is its version key (__v).
NoRoom == [exists |-> FALSE, files |-> <<>>, chatMessages |-> <<>>,
           drawing |-> "", lastActivity |-> 0, updatedAt |-> 0, v |-> 0]

\* The locals of a handler, in one shape for all handlers.
NoLoc == [roomId |-> "", username |-> "", found |-> FALSE,
          ref |-> NullRef, parentRef |-> NullRef, newId |-> NullRef,
          name |-> "", content |-> "", snap |-> <<>>, snapV |-> 0,
          idx |-> 0, mod |-> FALSE, oid |-> NullRef, user |-> <<>>]

\* ---------------------------------------------------------------- registry
User(c, u, r) ==
  [username |-> u, roomId |-> r, status |-> ONLINE, cursorPosition |-> 0,
   typing |-> FALSE, socketId |-> c]

\* A registry listing that forgets the room filter.
UsersInRoom_anyRoom(map, roomId) == map

UsersInRoom(map, roomId) == SelectSeq(map, LAMBDA user : user.roomId = roomId)

getUsersInRoom(roomId) == UsersInRoom(userSocketMap, roomId)

\* Array.find / findIndex: the least of the indices selected, 0 for none.
FirstIndex(selected) ==
  IF selected = {} THEN 0
  ELSE CHOOSE i \in selected : \A j \in selected : i <= j

getRoomId(socketId) ==
  LET i == FirstIndex({k \in 1..Len(userSocketMap) :
                userSocketMap[k].socketId = socketId})
  IN  IF i = 0 THEN "" ELSE userSocketMap[i].roomId

\* ------------------------------------------------------------ socket.io
\* An emit to every connected socket instead of one.
ToSocket_everyone(c) == {d \in Conns : conn[d] = "open"}

\* io.to(socket.id): the socket's own room holds it while it is connected.
ToSocket(c) == IF conn[c] = "open" THEN {c} ELSE {}
\* socket.broadcast.to(roomId): the group's sockets but the sender.
BroadcastTo(members, c) == members \ {c}
\* io.to(roomId): the whole group.
ToRoom(members) == members
\* The payload fields the claims read; a message carries some of them.
NoData == [users |-> <<>>, id |-> NullRef, oid |-> NullRef, files |-> <<>>,
           socketId |-> 0]
Emit(ev, targets, data) == {[ev |-> ev, to |-> t, data |-> data] : t \in targets}

Init ==
  /\ conn = [c \in Conns |-> "none"]
  /\ userSocketMap = <<>>
  /\ ioRooms = [r \in RoomIds |-> {}]
  /\ rooms = [r \in RoomIds |-> NoRoom]
  /\ userDocs = [c \in Conns |-> <<>>]
  /\ nextOid = 1
  /\ now = 0
  /\ dbUp = TRUE
  /\ pc = [c \in Conns |-> "idle"]
  /\ loc = [c \in Conns |-> NoLoc]
  /\ emitted = {}
  /\ unhandled = FALSE
  /\ sched = "idle"
  /\ purged = {}
  /\ nJoins = 0
  /\ nEvents = 0

\* ------------------------------------------------------------ connections
\* io.on("connection"): a client connects and its handlers are registered.
\* Connection c is the c-th socket to connect.
Connect(c) ==
  /\ conn[c] = "none"
  /\ \A d \in 1..(c - 1) : conn[d] # "none"
  /\ conn' = [conn EXCEPT ![c] = "open"]
  /\ emitted' = {}
  /\ UNCHANGED <<userSocketMap, ioRooms, rooms, userDocs, nextOid, now, dbUp,
                 pc, loc, unhandled, nJoins, nEvents, sched, purged>>

\* The handler of connection c ends: normally, or with an uncaught rejection.
Finish(c) == pc' = [pc EXCEPT ![c] = "idle"] /\ loc' = [loc EXCEPT ![c] = NoLoc]

\* ------------------------------------------------------------ JOIN_REQUEST
\* newUser.save(), inside try/catch: a failure is logged and nothing is stored.
SaveUser(c, u, r) ==
  IF dbUp
  THEN [userDocs EXCEPT ![c] =
          Append(@, [username |-> u, roomId |-> r, status |-> ONLINE,
                     cursorPosition |-> 0, typing |-> FALSE,
                     updatedAt |-> now])]
  ELSE userDocs

\* The room document `new RoomModel({roomId, files: [], ...})` saved at `now`.
NewRoom ==
  [exists |-> TRUE, files |-> <<>>, chatMessages |-> <<>>, drawing |-> "",
   lastActivity |-> now, updatedAt |-> now, v |-> 0]

\* The handler starts and awaits RoomModel.findOne({ roomId }); the call is
\* outside any try, so its failure ends the handler with a rejection.
JoinRequest(c, r, u) ==
  /\ conn[c] = "open"
  /\ pc[c] = "idle"
  /\ nJoins < MaxJoins
  /\ nJoins' = nJoins + 1
  /\ IF dbUp
     THEN /\ pc' = [pc EXCEPT ![c] = "join_found"]
          /\ loc' = [loc EXCEPT ![c] = [NoLoc EXCEPT !.roomId = r,
                                           !.username = u,
                                           !.found = rooms[r].exists]]
          /\ unhandled' = unhandled
     ELSE /\ Finish(c)
          /\ unhandled' = TRUE
  /\ emitted' = {}
  /\ UNCHANGED <<conn, userSocketMap, ioRooms, rooms, userDocs, nextOid, now,
                 dbUp, nEvents, sched, purged>>

\* After findOne: a missing room is created and saved (roomId is a unique
\* index: a second insert of the same roomId is rejected); a found room
\* goes straight on to newUser.save().
JoinAfterFind(c) ==
  /\ pc[c] = "join_found"
  /\ LET r == loc[c].roomId
         u == loc[c].username
     IN  IF loc[c].found
         THEN /\ userDocs' = SaveUser(c, u, r)
              /\ pc' = [pc EXCEPT ![c] = "join_check"]
              /\ UNCHANGED <<rooms, loc, unhandled>>
         ELSE IF dbUp /\ ~rooms[r].exists
         THEN /\ rooms' = [rooms EXCEPT ![r] = NewRoom]
              /\ pc' = [pc EXCEPT ![c] = "join_saved"]
              /\ UNCHANGED <<userDocs, loc, unhandled>>
         ELSE /\ Finish(c)
              /\ unhandled' = TRUE
              /\ UNCHANGED <<rooms, userDocs>>
  /\ emitted' = {}
  /\ UNCHANGED <<conn, userSocketMap, ioRooms, nextOid, now, dbUp, nJoins,
                 nEvents, sched, purged>>

\* After room.save(): newUser.save().
JoinAfterRoomSave(c) ==
  /\ pc[c] = "join_saved"
  /\ userDocs' = SaveUser(c, loc[c].username, loc[c].roomId)
  /\ pc' = [pc EXCEPT ![c] = "join_check"]
  /\ emitted' = {}
  /\ UNCHANGED <<conn, userSocketMap, ioRooms, rooms, nextOid, now, dbUp, loc,
                 unhandled, nJoins, nEvents, sched, purged>>

\* A username check that looks at the first registry entry only.
isUsernameExist_firstOnly(roomId, username) ==
  /\ userSocketMap # <<>>
  /\ userSocketMap[1].roomId = roomId
  /\ userSocketMap[1].username = username

\* `isUsernameExist.length > 0`
isUsernameExist(roomId, username) ==
  \E i \in 1..Len(userSocketMap) :
     /\ userSocketMap[i].roomId = roomId
     /\ userSocketMap[i].username = username

\* The sockets an emit reaches: a closed socket receives nothing.
Open(targets) == {t \in targets : conn[t] = "open"}

\* After newUser.save(): the username check, and the acceptance.  No await
\* separates the check from the push, so this segment is atomic.
JoinCheck(c) ==
  /\ pc[c] = "join_check"
  /\ LET r == loc[c].roomId
         u == loc[c].username
         user == User(c, u, r)
     IN  IF isUsernameExist(r, u)
         THEN /\ emitted' = Emit("username-exists", ToSocket(c), NoData)
              /\ UNCHANGED <<userSocketMap, ioRooms>>
         ELSE /\ userSocketMap' = Append(userSocketMap, user)
              /\ ioRooms' = [ioRooms EXCEPT ![r] = @ \cup {c}]
              /\ emitted' =
                   Emit("user-joined", Open(BroadcastTo(ioRooms'[r], c)),
                        [NoData EXCEPT !.users = <<user>>])
                   \cup Emit("join-accepted", ToSocket(c),
                        [NoData EXCEPT !.users =
                           UsersInRoom(Append(userSocketMap, user), r)])
  /\ Finish(c)
  /\ UNCHANGED <<conn, rooms, userDocs, nextOid, now, dbUp, unhandled, nJoins,
                 nEvents, sched, purged>>

\* ------------------------------------------------------------ disconnecting
getUserBySocketId(socketId) ==
  FirstIndex({k \in 1..Len(userSocketMap) :
                userSocketMap[k].socketId = socketId})

\* UserModel.findOneAndUpdate({ socketId }, { status }), inside try/catch.
SetUserDocStatus(socketId, status) ==
  IF dbUp /\ socketId \in Conns /\ userDocs[socketId] # <<>>
  THEN [userDocs EXCEPT ![socketId][1].status = status,
                        ![socketId][1].updatedAt = now]
  ELSE userDocs

\* A handler that removes the registry entries before it looks the user up
\* for the broadcast.
Disconnect_removeFirst(c) ==
  /\ conn[c] = "open"
  /\ conn' = [conn EXCEPT ![c] = "closed"]
  /\ userSocketMap' = SelectSeq(userSocketMap, LAMBDA u : u.socketId # c)
  /\ LET found == {k \in 1..Len(userSocketMap') :
                     userSocketMap'[k].socketId = c}
     IN  /\ emitted' =
              Emit("user-disconnected", {},
                   [NoData EXCEPT !.users =
                      IF found = {} THEN <<>>
                      ELSE <<userSocketMap'[FirstIndex(found)]>>])
         /\ userDocs' = IF getUserBySocketId(c) = 0 THEN userDocs
                        ELSE SetUserDocStatus(c, OFFLINE)
  /\ ioRooms' = [r \in RoomIds |-> ioRooms[r] \ {c}]
  /\ UNCHANGED <<rooms, nextOid, now, dbUp, pc, loc, unhandled, nJoins,
                 nEvents, sched, purged>>

\* The socket closes.  Its "disconnecting" handler runs while the socket is
\* still in its rooms; then the socket leaves every room.
Disconnect(c) ==
  /\ conn[c] = "open"
  /\ conn' = [conn EXCEPT ![c] = "closed"]
  /\ LET i == getUserBySocketId(c)
     IN  IF i = 0
         THEN /\ emitted' = {}
              /\ UNCHANGED <<userSocketMap, userDocs>>
         ELSE /\ emitted' = Emit("user-disconnected",
                              Open(BroadcastTo(ioRooms[userSocketMap[i].roomId], c)),
                              [NoData EXCEPT !.users = <<userSocketMap[i]>>])
              /\ userSocketMap' =
                   SelectSeq(userSocketMap, LAMBDA u : u.socketId # c)
              /\ userDocs' = SetUserDocStatus(c, OFFLINE)
  /\ ioRooms' = [r \in RoomIds |-> ioRooms[r] \ {c}]
  /\ UNCHANGED <<rooms, nextOid, now, dbUp, pc, loc, unhandled, nJoins,
                 nEvents, sched, purged>>

\* ------------------------------------------------- presence specification
NextJoin ==
  \/ \E c \in Conns : Connect(c)
  \/ \E c \in Conns, r \in RoomIds, u \in Usernames : JoinRequest(c, r, u)
  \/ \E c \in Conns : JoinAfterFind(c)
  \/ \E c \in Conns : JoinAfterRoomSave(c)
  \/ \E c \in Conns : JoinCheck(c)
  \/ \E c \in Conns : Disconnect(c)

SpecJoin == Init /\ [][NextJoin]_vars

\* ------------------------------------------------------- presence claims
\* The registry entries of room r that hold username u.
Holders(r, u) ==
  {i \in 1..Len(userSocketMap) :
     userSocketMap[i].roomId = r /\ userSocketMap[i].username = u}

\* The step that ends the join request of connection c.
JoinDecided(c) == pc[c] = "join_check" /\ pc'[c] = "idle"

UsernameExistsTo(c) == [ev |-> "username-exists", to |-> c, data |-> NoData]

\* C1: in every reachable state no two registry entries of the same room hold
\* the same username; a join request for a username already held in the room
\* is answered with username-exists, and every holder's entry stays in place
\* and its socket stays subscribed to the room.
C1_Unique ==
  \A i, j \in 1..Len(userSocketMap) :
     (/\ userSocketMap[i].roomId = userSocketMap[j].roomId
      /\ userSocketMap[i].username = userSocketMap[j].username) => i = j
C1_Reject ==
  \A c \in Conns :
     (JoinDecided(c) /\ Holders(loc[c].roomId, loc[c].username) # {}) =>
        /\ conn[c] = "open" => UsernameExistsTo(c) \in emitted'
        /\ \A i \in Holders(loc[c].roomId, loc[c].username) :
              /\ i <= Len(userSocketMap')
              /\ userSocketMap'[i] = userSocketMap[i]
              /\ userSocketMap[i].socketId \in ioRooms[loc[c].roomId]
                   => userSocketMap[i].socketId \in ioRooms'[loc[c].roomId]
C1_NoDuplicateUsername == []C1_Unique /\ [][C1_Reject]_vars

\* A second connection was just refused a name another, still subscribed,
\* connection holds.
C1_Witness ==
  \E m \in emitted :
     /\ m.ev = "username-exists"
     /\ \E i \in 1..Len(userSocketMap) :
           /\ userSocketMap[i].socketId # m.to
           /\ userSocketMap[i].socketId \in ioRooms[userSocketMap[i].roomId]
     /\ \A i \in 1..Len(userSocketMap) : userSocketMap[i].socketId # m.to

\* C9: when the join request of a connected socket is accepted, the registry
\* gets an online entry for it, the socket is subscribed to the room's group,
\* it receives join-accepted with exactly the room's registry entries after
\* the insertion, and user-joined goes to every other connected member of the
\* room and to no one else.  (A socket that closed while its request was
\* waiting on the store receives nothing.)
C9_Accept ==
  \A c \in Conns :
     (/\ JoinDecided(c)
      /\ Holders(loc[c].roomId, loc[c].username) = {}
      /\ conn[c] = "open") =>
        LET r == loc[c].roomId
            entry == userSocketMap'[Len(userSocketMap')]
            listed == SelectSeq(userSocketMap', LAMBDA e : e.roomId = r)
            others == {d \in Conns \ {c} :
                         /\ conn[d] = "open"
                         /\ \E i \in 1..Len(userSocketMap) :
                               /\ userSocketMap[i].socketId = d
                               /\ userSocketMap[i].roomId = r}
        IN  /\ Len(userSocketMap') = Len(userSocketMap) + 1
            /\ entry.socketId = c /\ entry.roomId = r
            /\ entry.username = loc[c].username /\ entry.status = ONLINE
            /\ c \in ioRooms'[r]
            /\ {m \in emitted' : m.ev = "join-accepted"} =
                 {[ev |-> "join-accepted", to |-> c,
                   data |-> [NoData EXCEPT !.users = listed]]}
            /\ {m.to : m \in {x \in emitted' : x.ev = "user-joined"}} = others
            /\ \A m \in emitted' : m.ev = "user-joined" => m.data.users = <<entry>>
C9_JoinAccepted == [][C9_Accept]_vars

\* A joiner was just told of two members and another member was notified.
C9_Witness ==
  \E m, n \in emitted :
     /\ m.ev = "join-accepted" /\ Len(m.data.users) = 2
     /\ n.ev = "user-joined" /\ n.to # m.to
     /\ m.data.users[2].socketId = m.to
     /\ m.to \in ioRooms[m.data.users[2].roomId]

\* C10: a join request refused for a username collision changes no registry
\* entry and no subscription, sends no user-joined, and sends username-exists
\* to the requesting connection only.
C10_Frame ==
  \A c \in Conns :
     (JoinDecided(c) /\ Holders(loc[c].roomId, loc[c].username) # {}) =>
        /\ userSocketMap' = userSocketMap
        /\ ioRooms' = ioRooms
        /\ emitted' \subseteq {UsernameExistsTo(c)}
C10_RejectedJoinFrame == [][C10_Frame]_vars

\* A connection that never joined was just refused: it has its notice, no
\* registry entry and no subscription, while another connection is told nothing.
C10_Witness ==
  \E m \in emitted :
     /\ m.ev = "username-exists"
     /\ emitted = {m}
     /\ getRoomId(m.to) = ""
     /\ \A r \in RoomIds : m.to \notin ioRooms[r]
     /\ \E d \in Conns \ {m.to} : conn[d] = "open"

\* ================================================================ file tree
\* The references, names and contents the clients send.
NodeRefs == {Hex(n) : n \in 0..MaxFiles} \cup {Uuid(1), Uuid(2)}
ParentRefs == {NullRef, Hex(0), Hex(1), Uuid(1)}
ClientIds == {Uuid(1), Uuid(2)}
NewNames == {"a", "b"}
NewContents == {"x", "y"}

\* A subdocument of room.files (fileSchema); id is its _id.
FileNode(oid, originalId, name, type, content, parentId, parentOriginalId) ==
  [id |-> oid, originalId |-> originalId, name |-> name, type |-> type,
   content |-> content, parentId |-> parentId,
   parentOriginalId |-> parentOriginalId]

\* fileSchema.pre('save'): a missing parentId is converted from
\* parentOriginalId when that is a well-formed ObjectId string.
preSave(file) ==
  IF file.parentOriginalId # NullRef /\ file.parentId = NullRef
     /\ isValidObjectId(file.parentOriginalId)
  THEN [file EXCEPT !.parentId = ObjectId(file.parentOriginalId)]
  ELSE file

\* The index of the first node a predicate selects (Array.find / findIndex,
\* and the positional operator $ of an update), 0 when there is none.
\* A lookup by _id that falls back on the first node when none matches.
ById_orFirst(files, oid) ==
  IF files = <<>> THEN 0
  ELSE IF \E i \in 1..Len(files) : files[i].id = oid
  THEN CHOOSE i \in 1..Len(files) : files[i].id = oid
  ELSE 1

ById(files, oid) == FirstIndex({i \in 1..Len(files) : files[i].id = oid})
ByOriginalId(files, ref) ==
  FirstIndex({i \in 1..Len(files) : files[i].originalId = ref})
ByEitherId(files, ref) ==
  FirstIndex({i \in 1..Len(files) :
                toString(files[i].id) = ref \/ files[i].originalId = ref})

\* Mongoose casts "files._id" in a filter and _id in a $pull condition to
\* ObjectId: a string that is no ObjectId makes the call throw a CastError.
CastFails(ref) == ~isValidObjectId(ref)

\* A store call of a handler throws: the store is down, or the cast fails.
Throws(ref) == ~dbUp \/ CastFails(ref)

\* The connection to the store is lost, or is back: while it is lost every
\* store call throws, into the catch of the handler that made it.
StoreFlip ==
  /\ dbUp' = ~dbUp
  /\ emitted' = {}
  /\ UNCHANGED <<conn, userSocketMap, ioRooms, rooms, userDocs, nextOid, now,
                 pc, loc, unhandled, sched, purged, nJoins, nEvents>>

\* An event of a joined connection is dispatched; the handler's first lines
\* are `const roomId = getRoomId(socket.id); if (!roomId) return;`.
Dispatch(c) ==
  /\ conn[c] = "open"
  /\ pc[c] = "idle"
  /\ nEvents < MaxEvents
  /\ nEvents' = nEvents + 1

\* A create is dispatched only while the store still has an ObjectId for it
\* (the bound of the model on the number of nodes ever created).
PendingCreates ==
  Cardinality({c \in Conns : pc[c] \in {"dir_found", "file_found"}})

DispatchCreate(c) == Dispatch(c) /\ nextOid + PendingCreates <= MaxFiles

\* A write that leaves updatedAt as it was.
Touch_unstamped(room) == room

\* The room document after a write at `now` (timestamps: true).
Touch(room) == [room EXCEPT !.updatedAt = now]

\* ------------------------------------------------------ DIRECTORY_CREATED
\* Dispatch and RoomModel.findOne({ roomId }) inside the try.
DirectoryCreated(c, parentDirId, newId) ==
  /\ DispatchCreate(c)
  /\ LET roomId == getRoomId(c)
     IN  IF roomId = ""
         THEN UNCHANGED <<pc, loc>>
         ELSE /\ pc' = [pc EXCEPT ![c] = "dir_found"]
              /\ loc' = [loc EXCEPT ![c] =
                   [NoLoc EXCEPT !.roomId = roomId, !.parentRef = parentDirId,
                                 !.newId = newId, !.name = "a",
                                 !.found = dbUp /\ rooms[roomId].exists,
                                 !.snapV = rooms[roomId].v]]
  /\ emitted' = {}
  /\ UNCHANGED <<conn, userSocketMap, ioRooms, rooms, userDocs, nextOid, now,
                 dbUp, unhandled, nJoins, sched, purged>>

\* The folder subdocument the handler pushes: no originalId, no
\* parentOriginalId; parentId only from a well-formed ObjectId string.
DirObj(oid, name, parentDirId) ==
  FileNode(oid, NullRef, name, "folder", "",
           IF parentDirId # NullRef /\ isValidObjectId(parentDirId)
           THEN ObjectId(parentDirId) ELSE NullRef,
           NullRef)

\* A save that writes the array as one new element, dropping what the
\* store holds.
SavePush_replace(roomId, node) ==
  IF dbUp /\ rooms[roomId].exists
  THEN [rooms EXCEPT ![roomId] =
          Touch([@ EXCEPT !.files = <<preSave(node)>>, !.v = @ + 1])]
  ELSE rooms

\* room.save() after room.files.push(doc): the new subdocument is appended
\* to the stored array ($push) and the version key is incremented; it fails
\* when the store is down or the room document is gone.
SavePush(roomId, node) ==
  IF dbUp /\ rooms[roomId].exists
  THEN [rooms EXCEPT ![roomId] =
          Touch([@ EXCEPT !.files = Append(@, preSave(node)), !.v = @ + 1])]
  ELSE rooms

\* The broadcast after the try, sent whatever the store did.
DirectoryCreatedMsg(c) ==
  Emit("directory-created", Open(BroadcastTo(ioRooms[loc[c].roomId], c)),
       [NoData EXCEPT !.id = loc[c].newId])

\* After findOne: push and save when the room was found; else (no room, or
\* the call threw) straight on to the broadcast.
DirectoryAfterFind(c) ==
  /\ pc[c] = "dir_found"
  /\ IF loc[c].found
     THEN /\ rooms' = SavePush(loc[c].roomId,
                        DirObj(Oid(nextOid), loc[c].name, loc[c].parentRef))
          /\ nextOid' = nextOid + 1
          /\ pc' = [pc EXCEPT ![c] = "dir_emit"]
          /\ emitted' = {}
          /\ UNCHANGED loc
     ELSE /\ emitted' = DirectoryCreatedMsg(c)
          /\ Finish(c)
          /\ UNCHANGED <<rooms, nextOid>>
  /\ UNCHANGED <<conn, userSocketMap, ioRooms, userDocs, now, dbUp,
                 unhandled, nJoins, nEvents, sched, purged>>

\* After save.
DirectoryEmit(c) ==
  /\ pc[c] = "dir_emit"
  /\ emitted' = DirectoryCreatedMsg(c)
  /\ Finish(c)
  /\ UNCHANGED <<conn, userSocketMap, ioRooms, rooms, userDocs, nextOid, now,
                 dbUp, unhandled, nJoins, nEvents, sched, purged>>

\* ----------------------------------------------------------- FILE_CREATED
FileCreated(c, parentDirId, newId) ==
  /\ DispatchCreate(c)
  /\ LET roomId == getRoomId(c)
     IN  IF roomId = ""
         THEN UNCHANGED <<pc, loc>>
         ELSE IF ~dbUp
         THEN UNCHANGED <<pc, loc>>
         ELSE /\ pc' = [pc EXCEPT ![c] = "file_found"]
              /\ loc' = [loc EXCEPT ![c] =
                   [NoLoc EXCEPT !.roomId = roomId, !.parentRef = parentDirId,
                                 !.newId = newId, !.name = "a",
                                 !.found = rooms[roomId].exists,
                                 !.snap = rooms[roomId].files,
                                 !.snapV = rooms[roomId].v]]
  /\ emitted' = {}
  /\ UNCHANGED <<conn, userSocketMap, ioRooms, rooms, userDocs, nextOid, now,
                 dbUp, unhandled, nJoins, sched, purged>>

\* `parentObjectId`: the _id of the node of the room found by either id,
\* else the reference itself converted to an ObjectId, else null.
parentObjectId(files, parentDirId) ==
  IF parentDirId = NullRef THEN NullRef
  ELSE LET i == ByEitherId(files, parentDirId)
       IN  IF i > 0 THEN files[i].id
           ELSE IF isValidObjectId(parentDirId) THEN ObjectId(parentDirId)
           ELSE NullRef

\* A file object that is always given the same _id.
FileObj_staticId(oid, files, name, content, newId, parentDirId) ==
  FileNode(Oid(1), newId, name, "file", content,
           parentObjectId(files, parentDirId), parentDirId)

\* `fileObj`
FileObj(oid, files, name, content, newId, parentDirId) ==
  FileNode(oid, newId, name, "file", content,
           parentObjectId(files, parentDirId), parentDirId)

\* A handler that reads the first element of the saved document's array.
savedFile_first(files) == files[1]

\* `savedFile`: the last element of the array of the document the handler
\* holds, that is of the array it read with its own subdocument pushed.
savedFile(files) == files[Len(files)]

\* After findOne: a missing room ends the handler; else push and save.
FileAfterFind(c) ==
  /\ pc[c] = "file_found"
  /\ IF loc[c].found /\ dbUp /\ rooms[loc[c].roomId].exists
     THEN /\ rooms' = SavePush(loc[c].roomId,
                        FileObj(Oid(nextOid), loc[c].snap, loc[c].name, "",
                                loc[c].newId, loc[c].parentRef))
          /\ nextOid' = nextOid + 1
          /\ pc' = [pc EXCEPT ![c] = "file_emit"]
          /\ loc' = [loc EXCEPT ![c].oid =
                       savedFile(Append(loc[c].snap,
                          FileObj(Oid(nextOid), loc[c].snap, loc[c].name, "",
                                  loc[c].newId, loc[c].parentRef))).id]
     ELSE /\ Finish(c)
          /\ UNCHANGED <<rooms, nextOid>>
  /\ emitted' = {}
  /\ UNCHANGED <<conn, userSocketMap, ioRooms, userDocs, now, dbUp, unhandled,
                 nJoins, nEvents, sched, purged>>

\* After save: savedFile is the last element of the saved document's array,
\* the subdocument this handler pushed.
FileEmit(c) ==
  /\ pc[c] = "file_emit"
  /\ emitted' = Emit("file-created",
                     Open(BroadcastTo(ioRooms[loc[c].roomId], c)),
                     [NoData EXCEPT !.id = loc[c].newId, !.oid = loc[c].oid])
  /\ Finish(c)
  /\ UNCHANGED <<conn, userSocketMap, ioRooms, rooms, userDocs, nextOid, now,
                 dbUp, unhandled, nJoins, nEvents, sched, purged>>

\* ------------------------------------------------ rename and delete events
\* RoomModel.updateOne({ roomId, "files._id": id },
\*                     { $set: { "files.$.name": newName } }) in a try.
RenameNode(roomId, ref, newName) ==
  IF Throws(ref) \/ ~rooms[roomId].exists THEN rooms
  ELSE LET i == ById(rooms[roomId].files, ObjectId(ref))
       IN  IF i = 0 THEN rooms
           ELSE [rooms EXCEPT ![roomId] =
                   Touch([@ EXCEPT !.files[i].name = newName])]

\* A delete that also removes the nodes whose parentId is the deleted _id.
PullNode_withChildren(roomId, ref) ==
  IF Throws(ref) \/ ~rooms[roomId].exists THEN rooms
  ELSE [rooms EXCEPT ![roomId] =
          Touch([@ EXCEPT !.files =
                   SelectSeq(@, LAMBDA f : /\ f.id # ObjectId(ref)
                                           /\ f.parentId # ObjectId(ref))])]

\* RoomModel.updateOne({ roomId }, { $pull: { files: { _id: id } } }) in a
\* try: the update matches the room and removes the nodes with that _id.
PullNode(roomId, ref) ==
  IF Throws(ref) \/ ~rooms[roomId].exists THEN rooms
  ELSE [rooms EXCEPT ![roomId] =
          Touch([@ EXCEPT !.files =
                   SelectSeq(@, LAMBDA f : f.id # ObjectId(ref))])]

\* Whether an update of a node reaches one: the call does not throw and the
\* room holds a node with that _id.
NodeMatched(roomId, ref) ==
  /\ ~Throws(ref)
  /\ rooms[roomId].exists
  /\ ById(rooms[roomId].files, ObjectId(ref)) > 0

\* Whether a findOneAndUpdate of the room reaches it: the call does not
\* throw and the room exists.
RoomMatched(roomId) == dbUp /\ rooms[roomId].exists

\* Dispatch of a rename or delete: the store call, then the handler waits.
\* name is the new name a rename carries, newRooms the Room collection
\* after the store call, matched whether the call succeeded and reached
\* its node or room.
StartNodeEvent(c, next, ref, name, matched, newRooms) ==
  /\ Dispatch(c)
  /\ LET roomId == getRoomId(c)
     IN  IF roomId = ""
         THEN UNCHANGED <<pc, loc, rooms>>
         ELSE /\ rooms' = newRooms
              /\ pc' = [pc EXCEPT ![c] = next]
              /\ loc' = [loc EXCEPT ![c] =
                           [NoLoc EXCEPT !.roomId = roomId, !.ref = ref,
                                      !.name = name, !.mod = matched]]
  /\ emitted' = {}
  /\ UNCHANGED <<conn, userSocketMap, ioRooms, userDocs, nextOid, now, dbUp,
                 unhandled, nJoins, sched, purged>>

\* The broadcast after the try of a rename or delete.
EmitNodeEvent(c, at, ev) ==
  /\ pc[c] = at
  /\ emitted' = Emit(ev, Open(BroadcastTo(ioRooms[loc[c].roomId], c)),
                     [NoData EXCEPT !.id = loc[c].ref])
  /\ Finish(c)
  /\ UNCHANGED <<conn, userSocketMap, ioRooms, rooms, userDocs, nextOid, now,
                 dbUp, unhandled, nJoins, nEvents, sched, purged>>

FileRenamed(c, fileId, newName) ==
  StartNodeEvent(c, "frename_emit", fileId, newName,
                 NodeMatched(getRoomId(c), fileId),
                 RenameNode(getRoomId(c), fileId, newName))
FileRenamedEmit(c) == EmitNodeEvent(c, "frename_emit", "file-renamed")

FileDeleted(c, fileId) ==
  StartNodeEvent(c, "fdelete_emit", fileId, "",
                 NodeMatched(getRoomId(c), fileId),
                 PullNode(getRoomId(c), fileId))
FileDeletedEmit(c) == EmitNodeEvent(c, "fdelete_emit", "file-deleted")

DirectoryRenamed(c, dirId, newName) ==
  StartNodeEvent(c, "drename_emit", dirId, newName,
                 NodeMatched(getRoomId(c), dirId),
                 RenameNode(getRoomId(c), dirId, newName))
DirectoryRenamedEmit(c) == EmitNodeEvent(c, "drename_emit", "directory-renamed")

DirectoryDeleted(c, dirId) ==
  StartNodeEvent(c, "ddelete_emit", dirId, "",
                 NodeMatched(getRoomId(c), dirId),
                 PullNode(getRoomId(c), dirId))
DirectoryDeletedEmit(c) == EmitNodeEvent(c, "ddelete_emit", "directory-deleted")

\* ----------------------------------------------------------- FILE_UPDATED
\* A store in which the first content written to a node stays.
SetContent_firstWins(roomId, i, newContent) ==
  [rooms EXCEPT ![roomId] =
     Touch([@ EXCEPT !.files[i].content =
                       IF @ = "" THEN newContent ELSE @])]

\* updateOne(..., { $set: { "files.$.content": newContent } }) on the node
\* at index i: with timestamps on both schemas the update also stamps
\* updatedAt.
SetContent(roomId, i, newContent) ==
  [rooms EXCEPT ![roomId] = Touch([@ EXCEPT !.files[i].content = newContent])]

\* What the store holds at a position no node has: an update of
\* "files.<i>.content" beyond the end of the array pads it with nulls and
\* creates an element that has the content only.
NullNode == FileNode(NullRef, NullRef, "", "null", "", NullRef, NullRef)
PartialNode(content) ==
  FileNode(NullRef, NullRef, "", "", content, NullRef, NullRef)

\* room.save() after `room.files[fileIndex].content = newContent`: a $set of
\* the path "files.<fileIndex>.content" on the stored document.
SetContentAt(files, i, newContent) ==
  IF i <= Len(files)
  THEN [files EXCEPT ![i].content = newContent]
  ELSE [j \in 1..i |-> IF j <= Len(files) THEN files[j]
                        ELSE IF j = i THEN PartialNode(newContent)
                        ELSE NullNode]

\* Tier 1, by _id (lines 441-451): index of the node matched, 0 for none.
Tier1Match(roomId, fileId) ==
  IF rooms[roomId].exists THEN ById(rooms[roomId].files, ObjectId(fileId)) ELSE 0

\* A second tier that compares the reference with _id instead of originalId.
Tier2Match_byId(roomId, fileId) ==
  IF rooms[roomId].exists
  THEN FirstIndex({i \in 1..Len(rooms[roomId].files) :
                     toString(rooms[roomId].files[i].id) = fileId})
  ELSE 0

\* Tier 2, by originalId (lines 454-463).
Tier2Match(roomId, fileId) ==
  IF rooms[roomId].exists THEN ByOriginalId(rooms[roomId].files, fileId) ELSE 0

\* One updateOne tier runs for connection c and the handler waits for it.
\* `modifiedCount > 0` is the store's answer that the matched document
\* changed: the content did, or the updatedAt stamp did.  The stamp is the
\* millisecond of the call, so an update with the content the node already
\* has, in the millisecond of the write before it, matches and modifies
\* nothing.
RunTier(c, l, i, next) ==
  /\ rooms' = IF i > 0 THEN SetContent(l.roomId, i, l.content) ELSE rooms
  /\ pc' = [pc EXCEPT ![c] = next]
  /\ \E sameStamp \in BOOLEAN :
        loc' = [loc EXCEPT ![c] =
                  [l EXCEPT !.mod =
                     IF i = 0 THEN FALSE
                     ELSE ~sameStamp
                          \/ rooms[l.roomId].files[i].content # l.content]]

\* RoomModel.findOne({ roomId }): the handler waits for the document.
ReadRoom(c, next) ==
  /\ pc' = [pc EXCEPT ![c] = next]
  /\ loc' = [loc EXCEPT ![c] =
               [@ EXCEPT !.found = rooms[loc[c].roomId].exists,
                         !.snap = rooms[loc[c].roomId].files,
                         !.snapV = rooms[loc[c].roomId].v]]
  /\ UNCHANGED rooms

\* Dispatch: tier 1 when fileId is a well-formed ObjectId, else tier 2.
\* Every store call of the handler is inside its try: a call that throws
\* ends the handler.
FileUpdated(c, fileId, newContent) ==
  /\ Dispatch(c)
  /\ LET roomId == getRoomId(c)
         l == [NoLoc EXCEPT !.roomId = roomId, !.ref = fileId,
                            !.content = newContent]
     IN  IF roomId = "" \/ ~dbUp
         THEN UNCHANGED <<pc, loc, rooms>>
         ELSE IF isValidObjectId(fileId)
         THEN RunTier(c, l, Tier1Match(roomId, fileId), "upd_t1")
         ELSE RunTier(c, l, Tier2Match(roomId, fileId), "upd_t2")
  /\ emitted' = {}
  /\ UNCHANGED <<conn, userSocketMap, ioRooms, userDocs, nextOid, now, dbUp,
                 unhandled, nJoins, sched, purged>>

\* After tier 1: tier 2 when nothing was modified, else the re-read.
UpdatedAfterTier1(c) ==
  /\ pc[c] = "upd_t1"
  /\ IF ~dbUp THEN Finish(c) /\ UNCHANGED rooms
     ELSE IF loc[c].mod THEN ReadRoom(c, "upd_refresh")
     ELSE RunTier(c, loc[c], Tier2Match(loc[c].roomId, loc[c].ref), "upd_t2")
  /\ emitted' = {}
  /\ UNCHANGED <<conn, userSocketMap, ioRooms, userDocs, nextOid, now, dbUp,
                 unhandled, nJoins, nEvents, sched, purged>>

\* After tier 2: the manual fallback reads the room when nothing was
\* modified, else the re-read.
UpdatedAfterTier2(c) ==
  /\ pc[c] = "upd_t2"
  /\ IF ~dbUp THEN Finish(c) /\ UNCHANGED rooms
     ELSE IF loc[c].mod THEN ReadRoom(c, "upd_refresh")
     ELSE ReadRoom(c, "upd_fb")
  /\ emitted' = {}
  /\ UNCHANGED <<conn, userSocketMap, ioRooms, userDocs, nextOid, now, dbUp,
                 unhandled, nJoins, nEvents, sched, purged>>

\* After the fallback's findOne: no room or no node ends the handler; else
\* the content is set on the node found in the document read and the
\* document is saved.  The save of a path below an array index is
\* conditioned on the version key read; a save that changes nothing writes
\* nothing.
UpdatedAfterFallback(c) ==
  /\ pc[c] = "upd_fb"
  /\ LET l == loc[c]
         i == ByEitherId(l.snap, l.ref)
         r == l.roomId
     IN  IF ~l.found \/ i = 0
         THEN Finish(c) /\ UNCHANGED rooms
         ELSE IF l.snap[i].content = l.content
         THEN pc' = [pc EXCEPT ![c] = "upd_saved"] /\ UNCHANGED <<loc, rooms>>
         ELSE IF ~dbUp \/ ~rooms[r].exists \/ rooms[r].v # l.snapV
         THEN Finish(c) /\ UNCHANGED rooms
         ELSE /\ rooms' = [rooms EXCEPT ![r] =
                   Touch([@ EXCEPT !.files = SetContentAt(@, i, l.content)])]
              /\ pc' = [pc EXCEPT ![c] = "upd_saved"]
              /\ loc' = [loc EXCEPT ![c].idx = i]
  /\ emitted' = {}
  /\ UNCHANGED <<conn, userSocketMap, ioRooms, userDocs, nextOid, now, dbUp,
                 unhandled, nJoins, nEvents, sched, purged>>

\* After the save: the re-read.
UpdatedAfterSave(c) ==
  /\ pc[c] = "upd_saved"
  /\ IF ~dbUp THEN Finish(c) /\ UNCHANGED rooms
     ELSE ReadRoom(c, "upd_refresh")
  /\ emitted' = {}
  /\ UNCHANGED <<conn, userSocketMap, ioRooms, userDocs, nextOid, now, dbUp,
                 unhandled, nJoins, nEvents, sched, purged>>

\* The recipients of the refresh: io.to(roomId).emit(...).
RefreshTargets(c, roomId) == Open(ToRoom(ioRooms[roomId]))

\* After the re-read: the room's files go to the room.
UpdatedEmit(c) ==
  /\ pc[c] = "upd_refresh"
  /\ emitted' = IF loc[c].found
                THEN Emit("file-structure-updated",
                          RefreshTargets(c, loc[c].roomId),
                          [NoData EXCEPT !.files = loc[c].snap])
                ELSE {}
  /\ Finish(c)
  /\ UNCHANGED <<conn, userSocketMap, ioRooms, rooms, userDocs, nextOid, now,
                 dbUp, unhandled, nJoins, nEvents, sched, purged>>

\* --------------------------------------------------- tree specification
\* Three clients have connected and joined: 1 as alice and 2 as bob in room
\* r1, 3 as alice in room r2; the joins created both rooms, empty.
RoomOf(c) == IF c = 3 THEN "r2" ELSE "r1"
NameOf(c) == IF c = 2 THEN "bob" ELSE "alice"

InitTree ==
  /\ conn = [c \in Conns |-> "open"]
  /\ userSocketMap = [c \in 1..3 |-> User(c, NameOf(c), RoomOf(c))]
  /\ ioRooms = [r \in RoomIds |-> {c \in Conns : RoomOf(c) = r}]
  /\ rooms = [r \in RoomIds |-> [NoRoom EXCEPT !.exists = TRUE]]
  /\ userDocs = [c \in Conns |->
                   <<[username |-> NameOf(c), roomId |-> RoomOf(c),
                      status |-> ONLINE, cursorPosition |-> 0,
                      typing |-> FALSE, updatedAt |-> 0]>>]
  /\ nextOid = 1
  /\ now = 0
  /\ dbUp = TRUE
  /\ pc = [c \in Conns |-> "idle"]
  /\ loc = [c \in Conns |-> NoLoc]
  /\ emitted = {}
  /\ unhandled = FALSE
  /\ sched = "idle"
  /\ purged = {}
  /\ nJoins = 3
  /\ nEvents = 0

\* The connections that send tree events: the two members of r1.  The
\* member of r2 listens.
Senders == {1, 2}

\* Creation of folders and files, and the renaming and deletion of files.
NextTree ==
  \/ \E c \in Senders, p \in ParentRefs : DirectoryCreated(c, p, Uuid(1))
  \/ \E c \in Senders : DirectoryAfterFind(c)
  \/ \E c \in Senders : DirectoryEmit(c)
  \/ \E c \in Senders, p \in ParentRefs, id \in ClientIds :
        FileCreated(c, p, id)
  \/ \E c \in Senders : FileAfterFind(c)
  \/ \E c \in Senders : FileEmit(c)
  \/ \E c \in Senders, id \in NodeRefs, n \in NewNames : FileRenamed(c, id, n)
  \/ \E c \in Senders : FileRenamedEmit(c)
  \/ \E c \in Senders, id \in NodeRefs : FileDeleted(c, id)
  \/ \E c \in Senders : FileDeletedEmit(c)

SpecTree == InitTree /\ [][NextTree]_vars

\* Folders and the files in them: creation, and the renaming and deletion
\* of folders.
NextDirs ==
  \/ \E c \in Senders, p \in ParentRefs : DirectoryCreated(c, p, Uuid(1))
  \/ \E c \in Senders : DirectoryAfterFind(c)
  \/ \E c \in Senders : DirectoryEmit(c)
  \/ \E c \in Senders, p \in ParentRefs, id \in ClientIds :
        FileCreated(c, p, id)
  \/ \E c \in Senders : FileAfterFind(c)
  \/ \E c \in Senders : FileEmit(c)
  \/ \E c \in Senders, id \in NodeRefs, n \in NewNames :
        DirectoryRenamed(c, id, n)
  \/ \E c \in Senders : DirectoryRenamedEmit(c)
  \/ \E c \in Senders, id \in NodeRefs : DirectoryDeleted(c, id)
  \/ \E c \in Senders : DirectoryDeletedEmit(c)

SpecDirs == InitTree /\ [][NextDirs]_vars

\* Files at the root of the room: their creation, content updates, renaming
\* and deletion.
NextUpdate ==
  \/ \E c \in Senders, id \in ClientIds : FileCreated(c, NullRef, id)
  \/ \E c \in Senders : FileAfterFind(c)
  \/ \E c \in Senders : FileEmit(c)
  \/ \E c \in Senders, id \in NodeRefs, x \in NewContents : FileUpdated(c, id, x)
  \/ \E c \in Senders : UpdatedAfterTier1(c)
  \/ \E c \in Senders : UpdatedAfterTier2(c)
  \/ \E c \in Senders : UpdatedAfterFallback(c)
  \/ \E c \in Senders : UpdatedAfterSave(c)
  \/ \E c \in Senders : UpdatedEmit(c)
  \/ \E c \in Senders, id \in NodeRefs, n \in NewNames : FileRenamed(c, id, n)
  \/ \E c \in Senders : FileRenamedEmit(c)
  \/ \E c \in Senders, id \in NodeRefs : FileDeleted(c, id)
  \/ \E c \in Senders : FileDeletedEmit(c)
  \/ StoreFlip

SpecUpdate == InitTree /\ [][NextUpdate]_vars

\* ------------------------------------------------------ chat and drawing
\* roomSchema.pre('findOneAndUpdate'): the hook stamps lastActivity; the
\* timestamps option stamps updatedAt.  updated is the room document with
\* the update applied.
findOneAndUpdate(roomId, updated) ==
  IF dbUp /\ rooms[roomId].exists
  THEN [rooms EXCEPT ![roomId] = Touch([updated EXCEPT !.lastActivity = now])]
  ELSE rooms

\* A handler that puts the message at the head of chatMessages.
SendMessage_prepend(c, message) ==
  StartNodeEvent(c, "chat_emit", NullRef, "",
    RoomMatched(getRoomId(c)),
    findOneAndUpdate(getRoomId(c),
       [rooms[getRoomId(c)] EXCEPT !.chatMessages =
          <<[username |-> message.username,
             message |-> message.message, timestamp |-> now]>> \o @]))

\* SEND_MESSAGE: the message is pushed to chatMessages in a try.
SendMessage(c, message) ==
  StartNodeEvent(c, "chat_emit", NullRef, "",
    RoomMatched(getRoomId(c)),
    findOneAndUpdate(getRoomId(c),
       [rooms[getRoomId(c)] EXCEPT !.chatMessages =
          Append(@, [username |-> message.username,
                     message |-> message.message, timestamp |-> now])]))
SendMessageEmit(c) == EmitNodeEvent(c, "chat_emit", "receive-message")

\* DRAWING_UPDATE: the snapshot overwrites room.drawing in a try.
DrawingUpdate(c, snapshot) ==
  StartNodeEvent(c, "draw_emit", NullRef, "",
    RoomMatched(getRoomId(c)),
    findOneAndUpdate(getRoomId(c),
       [rooms[getRoomId(c)] EXCEPT !.drawing = snapshot]))
DrawingUpdateEmit(c) == EmitNodeEvent(c, "draw_emit", "drawing-update")

\* ------------------------------------------------------------- scheduler
\* `thirtyDaysAgo.setDate(thirtyDaysAgo.getDate() - 30)`
RetentionDays == 30
\* `oneDayAgo.setDate(oneDayAgo.getDate() - 1)`
UserRetentionDays == 1
\* The days on which the clock is read.
Instants == {0, 30, 31}

\* Time passes.
Tick(t) ==
  /\ t > now
  /\ now' = t
  /\ emitted' = {}
  /\ UNCHANGED <<conn, userSocketMap, ioRooms, rooms, userDocs, nextOid, dbUp,
                 pc, loc, unhandled, sched, purged, nJoins, nEvents>>

\* RoomModel.deleteMany({ updatedAt: { $lt: thirtyDaysAgo } })
StaleRoom(room) == room.exists /\ room.updatedAt < now - RetentionDays

\* process.exit(1) in the catch of connectDB: the process ends, and with it
\* every socket, every handler in flight and the registry; the store keeps
\* what it holds.
ProcessExit ==
  /\ sched' = "exited"
  /\ conn' = [c \in Conns |-> IF conn[c] = "none" THEN "none" ELSE "closed"]
  /\ userSocketMap' = <<>>
  /\ ioRooms' = [r \in RoomIds |-> {}]
  /\ pc' = [c \in Conns |-> "idle"]
  /\ loc' = [c \in Conns |-> NoLoc]
  /\ emitted' = {}
  /\ UNCHANGED <<rooms, userDocs, nextOid, now, dbUp, unhandled, purged,
                 nJoins, nEvents>>

\* ensureDbConnected at the start of a cleanup run, when the connection is
\* no longer ready (readyState is not 1): it calls connectDB, whose
\* mongoose.connect fails while the store is unreachable.
CleanupExit ==
  /\ sched = "idle"
  /\ ~dbUp
  /\ ProcessExit

\* verifyDatabaseIntegrity: ensureDbConnected, then three read-only queries
\* in a try.  With the store unreachable either the connection still counts
\* as ready and the first query throws into the catch, or ensureDbConnected
\* reconnects and fails.
VerifyDatabaseIntegrity ==
  /\ sched # "exited"
  /\ \E ready \in BOOLEAN :
        IF dbUp \/ ready
        THEN /\ emitted' = {}
             /\ UNCHANGED <<conn, userSocketMap, ioRooms, rooms, userDocs,
                            nextOid, now, dbUp, pc, loc, unhandled, sched,
                            purged, nJoins, nEvents>>
        ELSE ProcessExit

\* cleanupStaleData, up to the deletion of the stale rooms, with a
\* connection that counts as ready.  The whole function is in a try: a
\* failing call ends the run.
CleanupRooms ==
  /\ sched = "idle"
  /\ IF dbUp
     THEN /\ purged' = {r \in RoomIds : StaleRoom(rooms[r])}
          /\ rooms' = [r \in RoomIds |->
                         IF StaleRoom(rooms[r]) THEN NoRoom ELSE rooms[r]]
          /\ sched' = "users"
     ELSE UNCHANGED <<purged, rooms, sched>>
  /\ emitted' = {}
  /\ UNCHANGED <<conn, userSocketMap, ioRooms, userDocs, nextOid, now, dbUp,
                 pc, loc, unhandled, nJoins, nEvents>>

\* UserModel.deleteMany({ status: "offline", updatedAt: { $lt: oneDayAgo } })
StaleUser(doc) ==
  doc.status = OFFLINE /\ doc.updatedAt < now - UserRetentionDays

\* cleanupStaleData, the deletion of the stale users.
CleanupUsers ==
  /\ sched = "users"
  /\ userDocs' = IF dbUp
                 THEN [c \in Conns |->
                         SelectSeq(userDocs[c], LAMBDA d : ~StaleUser(d))]
                 ELSE userDocs
  /\ sched' = "idle"
  /\ emitted' = {}
  /\ UNCHANGED <<conn, userSocketMap, ioRooms, rooms, nextOid, now, dbUp,
                 pc, loc, unhandled, purged, nJoins, nEvents>>

\* The scheduler, with rooms that see chat, drawing, file and folder
\* activity.
NextCleanup ==
  \/ \E t \in Instants : Tick(t)
  \/ CleanupRooms
  \/ CleanupUsers
  \/ SendMessage(1, [username |-> "alice", message |-> "hi"])
  \/ SendMessageEmit(1)
  \/ DrawingUpdate(1, "d")
  \/ DrawingUpdateEmit(1)
  \/ FileCreated(3, NullRef, Uuid(1))
  \/ FileAfterFind(3)
  \/ FileEmit(3)
  \/ DirectoryCreated(3, NullRef, Uuid(2))
  \/ DirectoryAfterFind(3)
  \/ DirectoryEmit(3)
  \/ FileUpdated(3, Hex(1), "x")
  \/ UpdatedAfterTier1(3)
  \/ UpdatedAfterTier2(3)
  \/ UpdatedAfterFallback(3)
  \/ UpdatedAfterSave(3)
  \/ UpdatedEmit(3)
  \/ FileDeleted(3, Hex(1))
  \/ FileDeletedEmit(3)
  \/ Disconnect(2)

SpecCleanup == InitTree /\ [][NextCleanup]_vars

\* The two duties of the scheduler, started at process start and again by
\* their timers, beside chat and a departure, with a store that may be
\* unreachable.
NextScheduler ==
  \/ \E t \in Instants : Tick(t)
  \/ CleanupRooms
  \/ CleanupExit
  \/ CleanupUsers
  \/ VerifyDatabaseIntegrity
  \/ \E m \in {[username |-> "alice", message |-> "hi"]} : SendMessage(1, m)
  \/ SendMessageEmit(1)
  \/ Disconnect(2)
  \/ StoreFlip

SpecScheduler == InitTree /\ [][NextScheduler]_vars

\* The chat of a room, beside drawing and file activity and the scheduler,
\* with a store that may be down.
Messages ==
  {[username |-> "alice", message |-> "hi"],
   [username |-> "bob", message |-> "yo"]}

NextChat ==
  \/ \E c \in Senders, m \in Messages : SendMessage(c, m)
  \/ \E c \in Senders : SendMessageEmit(c)
  \/ DrawingUpdate(1, "d")
  \/ DrawingUpdateEmit(1)
  \/ FileCreated(2, NullRef, Uuid(1))
  \/ FileAfterFind(2)
  \/ FileEmit(2)
  \/ \E t \in Instants : Tick(t)
  \/ CleanupRooms
  \/ CleanupExit
  \/ CleanupUsers
  \/ StoreFlip

SpecChat == InitTree /\ [][NextChat]_vars

\* ==================================================== status and sync events
\* A status change that reaches every entry of the registry.
SetStatus_everyEntry(map, socketId, status) ==
  [i \in 1..Len(map) |-> [map[i] EXCEPT !.status = status]]

\* `userSocketMap.map(...)`: the entries of socketId get the status.
SetStatus(map, socketId, status) ==
  [i \in 1..Len(map) |->
     IF map[i].socketId = socketId THEN [map[i] EXCEPT !.status = status]
     ELSE map[i]]

\* USER_OFFLINE and USER_ONLINE: socketId comes from the payload.  The
\* registry is mapped first; then, when the socketId has a room, the User
\* document is updated in a try and the handler waits.
UserStatus(c, socketId, status, next) ==
  /\ Dispatch(c)
  /\ userSocketMap' = SetStatus(userSocketMap, socketId, status)
  /\ LET roomId == getRoomId(socketId)
     IN  IF roomId = ""
         THEN UNCHANGED <<pc, loc, userDocs>>
         ELSE /\ userDocs' = SetUserDocStatus(socketId, status)
              /\ pc' = [pc EXCEPT ![c] = next]
              /\ loc' = [loc EXCEPT ![c] =
                           [NoLoc EXCEPT !.roomId = roomId, !.idx = socketId]]
  /\ emitted' = {}
  /\ UNCHANGED <<conn, ioRooms, rooms, nextOid, now, dbUp, unhandled, sched,
                 purged, nJoins>>

\* The broadcast after the try of a status event.
UserStatusEmit(c, at, ev) ==
  /\ pc[c] = at
  /\ emitted' = Emit(ev, Open(BroadcastTo(ioRooms[loc[c].roomId], c)),
                     [NoData EXCEPT !.socketId = loc[c].idx])
  /\ Finish(c)
  /\ UNCHANGED <<conn, userSocketMap, ioRooms, rooms, userDocs, nextOid, now,
                 dbUp, unhandled, sched, purged, nJoins, nEvents>>

UserOffline(c, socketId) == UserStatus(c, socketId, OFFLINE, "offline_emit")
UserOfflineEmit(c) == UserStatusEmit(c, "offline_emit", "offline")
UserOnline(c, socketId) == UserStatus(c, socketId, ONLINE, "online_emit")
UserOnlineEmit(c) == UserStatusEmit(c, "online_emit", "online")

\* ----------------------------------------------------------- typing events
\* The cursor positions a typing-start event carries.
Cursors == {1}

\* A typing change that reaches every entry of the registry.
SetTyping_everyEntry(map, socketId, typing, cursorPosition) ==
  [i \in 1..Len(map) |->
     [map[i] EXCEPT !.typing = typing, !.cursorPosition = cursorPosition]]

\* `userSocketMap.map(...)`: the entries of socketId get the typing flag and
\* the cursor position.
SetTyping(map, socketId, typing, cursorPosition) ==
  [i \in 1..Len(map) |->
     IF map[i].socketId = socketId
     THEN [map[i] EXCEPT !.typing = typing, !.cursorPosition = cursorPosition]
     ELSE map[i]]

\* UserModel.findOneAndUpdate({ socketId }, { typing, ... }), inside a try.
SetUserDocTyping(socketId, typing, cursorPosition) ==
  IF dbUp /\ userDocs[socketId] # <<>>
  THEN [userDocs EXCEPT ![socketId][1].typing = typing,
                        ![socketId][1].cursorPosition = cursorPosition,
                        ![socketId][1].updatedAt = now]
  ELSE userDocs

\* A typing handler that gives up, and restores the registry, when the store
\* is down.
Typing_needsStore(c, newMap, newDocs, next) ==
  /\ Dispatch(c)
  /\ userSocketMap' = IF dbUp THEN newMap ELSE userSocketMap
  /\ LET i == getUserBySocketId(c)
     IN  IF i = 0 \/ ~dbUp
         THEN UNCHANGED <<pc, loc, userDocs>>
         ELSE /\ userDocs' = newDocs
              /\ pc' = [pc EXCEPT ![c] = next]
              /\ loc' = [loc EXCEPT ![c] =
                           [NoLoc EXCEPT !.roomId = newMap[i].roomId,
                                         !.user = <<newMap[i]>>]]
  /\ emitted' = {}
  /\ UNCHANGED <<conn, ioRooms, rooms, nextOid, now, dbUp, unhandled, sched,
                 purged, nJoins>>

\* TYPING_START and TYPING_PAUSE: the registry is mapped for socket.id;
\* then, when the socket has an entry, the User document is updated in a try
\* and the handler waits, holding the entry it looked up.
Typing(c, newMap, newDocs, next) ==
  /\ Dispatch(c)
  /\ userSocketMap' = newMap
  /\ LET i == getUserBySocketId(c)
     IN  IF i = 0
         THEN UNCHANGED <<pc, loc, userDocs>>
         ELSE /\ userDocs' = newDocs
              /\ pc' = [pc EXCEPT ![c] = next]
              /\ loc' = [loc EXCEPT ![c] =
                           [NoLoc EXCEPT !.roomId = newMap[i].roomId,
                                         !.user = <<newMap[i]>>]]
  /\ emitted' = {}
  /\ UNCHANGED <<conn, ioRooms, rooms, nextOid, now, dbUp, unhandled, sched,
                 purged, nJoins>>

\* The broadcast after the try of a typing event.
TypingEmit(c, at, ev) ==
  /\ pc[c] = at
  /\ emitted' = Emit(ev, Open(BroadcastTo(ioRooms[loc[c].roomId], c)),
                     [NoData EXCEPT !.users = loc[c].user])
  /\ Finish(c)
  /\ UNCHANGED <<conn, userSocketMap, ioRooms, rooms, userDocs, nextOid, now,
                 dbUp, unhandled, sched, purged, nJoins, nEvents>>

TypingStart(c, cursorPosition) ==
  Typing(c, SetTyping(userSocketMap, c, TRUE, cursorPosition),
         SetUserDocTyping(c, TRUE, cursorPosition), "tstart_emit")
TypingStartEmit(c) == TypingEmit(c, "tstart_emit", "typing-start")

\* TYPING_PAUSE leaves the cursor position: of the entry, and of the
\* document.
PauseMap(map, socketId) ==
  [i \in 1..Len(map) |->
     IF map[i].socketId = socketId THEN [map[i] EXCEPT !.typing = FALSE]
     ELSE map[i]]
PauseDoc(socketId) ==
  IF dbUp /\ userDocs[socketId] # <<>>
  THEN [userDocs EXCEPT ![socketId][1].typing = FALSE,
                        ![socketId][1].updatedAt = now]
  ELSE userDocs
TypingPause(c) ==
  Typing(c, PauseMap(userSocketMap, c), PauseDoc(c), "tpause_emit")
TypingPauseEmit(c) == TypingEmit(c, "tpause_emit", "typing-pause")

\* A handler without an await: it emits and ends in one step.
EmitNow(c, messages) ==
  /\ Dispatch(c)
  /\ emitted' = messages
  /\ UNCHANGED <<conn, userSocketMap, ioRooms, rooms, userDocs, nextOid, now,
                 dbUp, pc, loc, unhandled, sched, purged, nJoins>>

\* SYNC_FILE_STRUCTURE: io.to(socketId).emit(...), socketId from the payload.
SyncFileStructure(c, socketId) ==
  EmitNow(c, Emit("sync-file-structure", ToSocket(socketId), NoData))

\* SYNC_DRAWING: socket.broadcast.to(socketId).emit(...).
SyncDrawing(c, socketId) ==
  EmitNow(c, Emit("sync-drawing", Open(BroadcastTo({socketId}, c)), NoData))

\* REQUEST_DRAWING: to the sender's room, when it has one.
RequestDrawing(c) ==
  EmitNow(c, IF getRoomId(c) = "" THEN {}
             ELSE Emit("request-drawing",
                       Open(BroadcastTo(ioRooms[getRoomId(c)], c)),
                       [NoData EXCEPT !.socketId = c]))

\* Two clients have joined room r1, as alice and bob; a third has connected
\* and has not joined.  Room r2 does not exist.
InitLobby ==
  /\ conn = [c \in Conns |-> "open"]
  /\ userSocketMap = [c \in 1..2 |-> User(c, NameOf(c), "r1")]
  /\ ioRooms = [r \in RoomIds |-> IF r = "r1" THEN {1, 2} ELSE {}]
  /\ rooms = [r \in RoomIds |->
                IF r = "r1" THEN [NoRoom EXCEPT !.exists = TRUE] ELSE NoRoom]
  /\ userDocs = [c \in Conns |->
                   IF c = 3 THEN <<>>
                   ELSE <<[username |-> NameOf(c), roomId |-> "r1",
                           status |-> ONLINE, cursorPosition |-> 0,
                      typing |-> FALSE, updatedAt |-> 0]>>]
  /\ nextOid = 1
  /\ now = 0
  /\ dbUp = TRUE
  /\ pc = [c \in Conns |-> "idle"]
  /\ loc = [c \in Conns |-> NoLoc]
  /\ emitted = {}
  /\ unhandled = FALSE
  /\ sched = "idle"
  /\ purged = {}
  /\ nJoins = 2
  /\ nEvents = 0

\* Presence after the joins: status signals, sync events, a late join and
\* disconnects, with a store that may be down.
NextStatus ==
  \/ \E r \in RoomIds, u \in Usernames : JoinRequest(3, r, u)
  \/ JoinAfterFind(3)
  \/ JoinAfterRoomSave(3)
  \/ JoinCheck(3)
  \/ \E c \in {1, 3} : UserOffline(c, 1)
  \/ \E c \in {1, 3} : UserOfflineEmit(c)
  \/ UserOnline(1, 1)
  \/ UserOnlineEmit(1)
  \/ SyncFileStructure(3, 1)
  \/ SyncDrawing(3, 2)
  \/ \E c \in {1, 3} : RequestDrawing(c)
  \/ \E c \in {1, 3} : Disconnect(c)
  \/ StoreFlip

SpecStatus == InitLobby /\ [][NextStatus]_vars

\* Typing and status signals of a member and of a connection that has not
\* joined, and the departure of members, with a store that may be down.
NextTyping ==
  \/ \E c \in {1, 3}, p \in Cursors : TypingStart(c, p)
  \/ \E c \in {1, 3} : TypingStartEmit(c)
  \/ \E c \in {1, 3} : TypingPause(c)
  \/ \E c \in {1, 3} : TypingPauseEmit(c)
  \/ \E socketId \in {1, 3} : UserOffline(1, socketId)
  \/ UserOfflineEmit(1)
  \/ \E socketId \in {1, 3} : UserOnline(1, socketId)
  \/ UserOnlineEmit(1)
  \/ \E c \in {1, 2} : Disconnect(c)
  \/ StoreFlip

SpecTyping == InitLobby /\ [][NextTyping]_vars

\* ============================================================ tree claims
\* The nodes of a collection a reference resolves to: by durable id (the
\* string of _id) or by transient id (originalId).
Resolved(files, ref) ==
  {i \in 1..Len(files) : toString(files[i].id) = ref \/ files[i].originalId = ref}

\* A step of the handler running for connection c.
HandlerStep(c) == pc'[c] # pc[c]

\* C2: no message the server emits in a step of the handler of a mutation
\* event of connection A is delivered to A itself.
C2_NoEcho ==
  [][\A c \in Conns : HandlerStep(c) => \A m \in emitted' : m.to # c]_vars

\* C6: a file-updated event of a joined connection whose fileId is the
\* transient id of a stored node (which has another, durable, id) is resolved
\* by the second tier: the first node stored under that transient id gets
\* newContent as its content, and no other node changes.
C6_Tier2 ==
  \A c \in Conns :
     (/\ pc[c] = "idle" /\ pc'[c] = "upd_t2"
      /\ loc'[c].ref.k = "uuid"
      /\ \E i \in 1..Len(rooms[loc'[c].roomId].files) :
            rooms[loc'[c].roomId].files[i].originalId = loc'[c].ref) =>
        LET r == loc'[c].roomId
            i == CHOOSE k \in 1..Len(rooms[r].files) :
                   /\ rooms[r].files[k].originalId = loc'[c].ref
                   /\ \A j \in 1..(k - 1) :
                         rooms[r].files[j].originalId # loc'[c].ref
        IN  /\ rooms[r].files[i].id # NullRef
            /\ toString(rooms[r].files[i].id) # loc'[c].ref
            /\ rooms'[r].files =
                 [rooms[r].files EXCEPT ![i].content = loc'[c].content]
C6_UpdateByTransientId == [][C6_Tier2]_vars

\* The second member of the room has just changed, through the transient id,
\* the content of a file that has a durable id.
C6_Witness ==
  /\ pc[2] = "upd_t2" /\ loc[2].mod /\ loc[2].ref.k = "uuid"
  /\ \E i \in 1..Len(rooms["r1"].files) :
        /\ rooms["r1"].files[i].originalId = loc[2].ref
        /\ rooms["r1"].files[i].id.k = "oid"
        /\ rooms["r1"].files[i].content = loc[2].content
        /\ loc[2].content # ""

\* C7: a step of the handler of a file-deleted, file-renamed or file-updated
\* event whose id resolves to no node, neither in the stored collection nor
\* in the document the handler has read, leaves the stored collection as it
\* was, and the handler does not end with an uncaught error.
C7_Step ==
  \A c \in Conns :
     LET l == IF pc[c] = "idle" THEN loc'[c] ELSE loc[c]
         at == IF pc[c] = "idle" THEN pc'[c] ELSE pc[c]
     IN  (/\ HandlerStep(c)
          /\ at \in {"fdelete_emit", "frename_emit",
                     "upd_t1", "upd_t2", "upd_fb", "upd_saved", "upd_refresh"}
          /\ Resolved(rooms[l.roomId].files, l.ref) = {}
          /\ Resolved(l.snap, l.ref) = {}) =>
            /\ rooms'[l.roomId].files = rooms[l.roomId].files
            /\ ~unhandled'
C3_Step ==
  \A c \in Conns :
     (/\ pc[c] = "idle"
      /\ pc'[c] \in {"frename_emit", "fdelete_emit"}
      /\ dbUp) =>
        LET r == loc'[c].roomId
            ref == loc'[c].ref
        IN  \A i \in Resolved(rooms[r].files, ref) :
               IF pc'[c] = "frename_emit"
               THEN /\ i <= Len(rooms'[r].files)
                    /\ rooms'[r].files[i].name = loc'[c].name
               ELSE \A j \in 1..Len(rooms'[r].files) :
                       rooms'[r].files[j].id # rooms[r].files[i].id
C3_RenameDeleteByEitherId == [][C3_Step]_vars

\* C4: a room's collection never holds two nodes with the same transient id:
\* a create event processed twice for one transient id stores one node.
C4_OneNodePerTransientId ==
  \A r \in RoomIds :
     \A i, j \in 1..Len(rooms[r].files) :
        (/\ rooms[r].files[i].originalId # NullRef
         /\ rooms[r].files[i].originalId = rooms[r].files[j].originalId)
           => i = j

\* C5: when the room holds one node, a folder at the root that was created
\* with transient id t1 and stored under durable id d1, a file-created event
\* with parent reference t1 stores the file with parentId d1.
C5_Step ==
  \A c \in Conns :
     (/\ pc[c] = "file_found" /\ pc'[c] = "file_emit"
      /\ loc[c].parentRef = Uuid(1)
      /\ Len(loc[c].snap) = 1
      /\ loc[c].snap[1].type = "folder"
      /\ loc[c].snap[1].parentId = NullRef
      /\ rooms[loc[c].roomId].files = loc[c].snap) =>
        LET files == rooms'[loc[c].roomId].files
        IN  /\ Len(files) = 2
            /\ files[2].type = "file"
            /\ files[2].parentId = loc[c].snap[1].id
C5_ParentByTransientId == [][C5_Step]_vars

\* ======================================================= scheduler claims
\* The step of a cleanup run that deleted the stale rooms.
RoomsPurged == sched = "idle" /\ sched' = "users"

\* C8: a cleanup run deletes every room whose lastActivity is more
\* than 30 days old and no room whose lastActivity is within the 30 days.
C8_ByLastActivity ==
  [][RoomsPurged =>
       \A r \in RoomIds :
          rooms[r].exists =>
            (rooms'[r].exists <=> rooms[r].lastActivity >= now - RetentionDays)
    ]_vars
\* ========================================================= status claims
\* A step of the handler of a status, sync or drawing-request event sent by
\* connection c.
StatusEventStep(c) ==
  \/ \E d \in Conns : UserOffline(c, d) \/ UserOnline(c, d)
  \/ \E d \in Conns : SyncFileStructure(c, d) \/ SyncDrawing(c, d)
  \/ RequestDrawing(c)
  \/ UserOfflineEmit(c)
  \/ UserOnlineEmit(c)

\* C11: an event other than join-request of a connection that has no registry
\* entry changes neither the registry nor a persisted room or user record,
\* and emits nothing.
C11_Ignored ==
  [][\A c \in Conns :
        (getRoomId(c) = "" /\ StatusEventStep(c)) =>
           /\ userSocketMap' = userSocketMap
           /\ rooms' = rooms
           /\ userDocs' = userDocs
           /\ emitted' = {}]_vars
\* The registry has an entry for connection c.
Joined(map, c) == \E i \in 1..Len(map) : map[i].socketId = c

\* The members of room r other than c whose sockets are connected.
OtherMembers(r, c) ==
  {d \in Conns \ {c} :
     /\ conn[d] = "open"
     /\ \E i \in 1..Len(userSocketMap) :
           userSocketMap[i].socketId = d /\ userSocketMap[i].roomId = r}

\* C12, as stated: when a joined connection disconnects, or its own offline
\* signal has been handled, its registry entry is removed, the other members of its
\* room have been notified and, the store being reachable, its User record
\* has status offline.
C12_Left(c, r, ev) ==
  /\ ~Joined(userSocketMap', c)
  /\ \A d \in OtherMembers(r, c) : \E m \in emitted' : m.ev = ev /\ m.to = d
  /\ dbUp => \A i \in 1..Len(userDocs'[c]) : userDocs'[c][i].status = OFFLINE
C12_Leaves ==
  [][\A c \in Conns :
        /\ (Joined(userSocketMap, c) /\ Disconnect(c)) =>
              C12_Left(c, getRoomId(c), "user-disconnected")
        /\ (Joined(userSocketMap, c) /\ UserOfflineEmit(c) /\ loc[c].idx = c) =>
              C12_Left(c, getRoomId(c), "offline")]_vars
\* The first User record stored for connection c, the one a findOneAndUpdate
\* by socketId reaches, is offline when the store is reachable.
C12_RecordOffline(c) ==
  (dbUp /\ userDocs'[c] # <<>>) => userDocs'[c][1].status = OFFLINE

\* C12, amended: a disconnect of a joined connection removes its registry
\* entries and notifies the other members of its room with user-disconnected.
\* Its own offline signal keeps its entries and sets their status to offline,
\* leaving all other entries as they were, and the other members are then
\* notified with offline.  Either way the first User record of the socket is
\* offline when the store is reachable.
C12_Step ==
  \A c \in Conns :
     /\ (Joined(userSocketMap, c) /\ Disconnect(c)) =>
           /\ ~Joined(userSocketMap', c)
           /\ {m.to : m \in {x \in emitted' : x.ev = "user-disconnected"}}
                = OtherMembers(getRoomId(c), c)
           /\ C12_RecordOffline(c)
     /\ (Joined(userSocketMap, c) /\ UserOffline(c, c)) =>
           /\ Len(userSocketMap') = Len(userSocketMap)
           /\ \A i \in 1..Len(userSocketMap) :
                 userSocketMap'[i] =
                   IF userSocketMap[i].socketId = c
                   THEN [userSocketMap[i] EXCEPT !.status = OFFLINE]
                   ELSE userSocketMap[i]
           /\ C12_RecordOffline(c)
     /\ (UserOfflineEmit(c) /\ loc[c].idx = c) =>
           /\ userSocketMap' = userSocketMap
           /\ {m.to : m \in {x \in emitted' : x.ev = "offline"}}
                = {d \in ioRooms[loc[c].roomId] \ {c} : conn[d] = "open"}
           /\ \A m \in emitted' : m.data.socketId = c
C12_DisconnectOrOffline == [][C12_Step]_vars

\* Socket 1 has signalled that it is offline: bob alone was just told, and
\* the entry of socket 1 is still in the registry, offline like its record.
C12_Witness ==
  /\ emitted = {[ev |-> "offline", to |-> 2,
                 data |-> [NoData EXCEPT !.socketId = 1]]}
  /\ \E i \in 1..Len(userSocketMap) :
        userSocketMap[i].socketId = 1 /\ userSocketMap[i].status = OFFLINE
  /\ userDocs[1][1].status = OFFLINE
  /\ pc[1] = "idle"
\* ====================================================== broadcast claims
\* The events that carry a tree, chat or drawing mutation to a room.
MutationEvents ==
  {"file-renamed", "file-deleted", "directory-renamed", "directory-deleted",
   "directory-created", "file-created", "receive-message", "drawing-update"}

\* The positions at which a handler has made its write and is about to
\* broadcast.
AfterWrite ==
  {"frename_emit", "fdelete_emit", "drename_emit", "ddelete_emit",
   "chat_emit", "draw_emit"}

\* C13: a step that broadcasts a mutation makes no write of its own (the
\* write was completed in an earlier step of the handler), and the handler of
\* a mutation whose write failed or reached no node or room broadcasts
\* nothing.
C13_Step ==
  /\ (\E m \in emitted' : m.ev \in MutationEvents) => rooms' = rooms
  /\ \A c \in Conns :
        (pc[c] \in AfterWrite /\ pc'[c] = "idle" /\ ~loc[c].mod) =>
           emitted' = {}
C13_BroadcastAfterWrite == [][C13_Step]_vars
\* C14: the handler of a successful tree mutation (a create, rename, delete
\* or content update that reached the store) ends with file-structure-updated
\* sent to the connected members of the room.
C14_Step ==
  \A c \in Conns :
     (/\ pc'[c] = "idle"
      /\ \/ pc[c] \in {"file_emit", "dir_emit", "upd_refresh"}
         \/ pc[c] \in {"frename_emit", "fdelete_emit", "drename_emit",
                       "ddelete_emit"} /\ loc[c].mod) =>
        \A d \in ioRooms[loc[c].roomId] \ {c} :
           conn[d] = "open" =>
             \E m \in emitted' : m.ev = "file-structure-updated" /\ m.to = d
C14_FullRefresh == [][C14_Step]_vars
\* ================================================ store failure claims
\* The join request of connection c for username u in room r is accepted in
\* this step.
AcceptedNow(c, r, u) ==
  /\ \E i \in 1..Len(userSocketMap') :
        /\ userSocketMap'[i].socketId = c /\ userSocketMap'[i].roomId = r
        /\ userSocketMap'[i].username = u /\ userSocketMap'[i].status = ONLINE
  /\ c \in ioRooms'[r]
  /\ conn[c] = "open" => \E m \in emitted' : m.ev = "join-accepted" /\ m.to = c

\* C15: while the store is unreachable, no step of the handler of a join
\* request for a username that is free in the room ends the handler other
\* than by accepting the join.
C15_Step ==
  \A c \in Conns :
     /\ \A r \in RoomIds, u \in Usernames :
           (JoinRequest(c, r, u) /\ ~dbUp /\ Holders(r, u) = {}
              /\ pc'[c] = "idle") => AcceptedNow(c, r, u)
     /\ (/\ pc[c] \in {"join_found", "join_saved", "join_check"}
         /\ pc'[c] = "idle" /\ ~dbUp
         /\ Holders(loc[c].roomId, loc[c].username) = {}) =>
           AcceptedNow(c, loc[c].roomId, loc[c].username)
C15_JoinWithoutStore == [][C15_Step]_vars
\* C16: no handler ends with an uncaught rejection of a persistence call,
\* and a step that a handler takes for a room while the store is down
\* changes neither a registry entry nor the document of another room.
C16_Frame ==
  \A c \in Conns :
     (HandlerStep(c) /\ ~dbUp) =>
        LET r == IF pc[c] = "idle" THEN loc'[c].roomId ELSE loc[c].roomId
        IN  /\ \A q \in RoomIds \ {r} : rooms'[q] = rooms[q]
            /\ SelectSeq(userSocketMap', LAMBDA e : e.roomId # r)
                 = SelectSeq(userSocketMap, LAMBDA e : e.roomId # r)
C16_FailuresAreCaught == [](~unhandled) /\ [][C16_Frame]_vars
\* C17: the created broadcast that ends the handler of a stored file or
\* folder carries the transient id of the node and the durable id the store
\* assigned to it.
C17_Step ==
  \A c \in Conns :
     (pc[c] \in {"file_emit", "dir_emit"} /\ pc'[c] = "idle") =>
        \A m \in emitted' :
           /\ m.ev \in {"file-created", "directory-created"}
           /\ m.data.id = loc[c].newId
           /\ m.data.oid.k = "oid"
C17_BothIds == [][C17_Step]_vars
\* ==================================================== concurrency claims
\* A step in which the FILE_UPDATED handler of connection c writes through
\* one of its updateOne tiers.
TierWrites(c) ==
  /\ HandlerStep(c)
  /\ pc'[c] \in {"upd_t1", "upd_t2"}
  /\ loc'[c].mod

\* A step in which the manual fallback of the handler of c saves.
FallbackWrites(c) ==
  /\ pc[c] = "upd_fb"
  /\ pc'[c] = "upd_saved"
  /\ rooms' # rooms

\* Two collections hold the same nodes at the same positions.
SameNodes(f, g) ==
  /\ Len(f) = Len(g)
  /\ \A i \in 1..Len(f) : f[i].id = g[i].id

\* Connection d has a file-updated for the reference ref of room r in
\* flight.
Updating(d, r, ref) ==
  /\ pc[d] \in {"upd_t1", "upd_t2", "upd_fb", "upd_saved", "upd_refresh"}
  /\ loc[d].roomId = r
  /\ loc[d].ref = ref

\* C18: a write of a file-updated handler (an updateOne tier, or the save of
\* the fallback when no node was added or removed since its read) sets the
\* content of one node its fileId resolves to, to the newContent of its own
\* event, over whatever an earlier write of another connection left there,
\* changes no other node and raises no error: of two interleaved updates of
\* a node the one that writes last decides the content.
C18_Step ==
  \A c \in Conns :
     (\/ TierWrites(c)
      \/ FallbackWrites(c) /\ SameNodes(loc[c].snap, rooms[loc[c].roomId].files))
     =>
        LET r == loc'[c].roomId
        IN  /\ \E i \in Resolved(rooms[r].files, loc'[c].ref) :
                  rooms'[r].files =
                    [rooms[r].files EXCEPT ![i].content = loc'[c].content]
            /\ ~unhandled'
C18_LastWriteWins == [][C18_Step]_vars

\* Both members of r1 have written the content of the same node, each its
\* own, and the node holds the content of the second while the handler of
\* the first is still in flight.
C18_Witness ==
  /\ Updating(1, "r1", loc[2].ref)
  /\ Updating(2, "r1", loc[1].ref)
  /\ loc[1].mod /\ loc[2].mod
  /\ loc[1].content # loc[2].content
  /\ \E i \in Resolved(rooms["r1"].files, loc[1].ref) :
        rooms["r1"].files[i].content = loc[2].content

\* The save of the fallback overwrites the content another connection wrote
\* after the fallback's read.
C18_FallbackWitness ==
  /\ pc[1] = "upd_saved"
  /\ loc[1].idx > 0
  /\ Updating(2, "r1", loc[1].ref)
  /\ loc[2].mod
  /\ loc[1].content # loc[2].content
  /\ rooms["r1"].files[loc[1].idx].content = loc[1].content

\* The contents of the nodes of a collection, by position.
Contents(files) == [i \in 1..Len(files) |-> files[i].content]

\* C19: the refresh that a file-updated handler sends in the step after which
\* no handler is in flight, the last broadcast of the interleaving, gives
\* every node the content the store then holds for it (the nodes being those
\* the handler read: none was created or deleted meanwhile).
C19_Step ==
  \A c \in Conns :
     (/\ pc[c] = "upd_refresh"
      /\ pc'[c] = "idle"
      /\ \A d \in Conns : pc'[d] = "idle"
      /\ SameNodes(loc[c].snap, rooms'[loc[c].roomId].files))
     =>
        \A m \in emitted' :
           m.ev = "file-structure-updated" =>
              Contents(m.data.files) = Contents(rooms'[loc[c].roomId].files)
C19_RefreshConverges == [][C19_Step]_vars

\* C20: with the store reachable, a join request that found no room for its
\* roomId goes on to its decision, accepted or username-exists, whether its
\* own save or the save of a concurrent first join created the room: its
\* handler never ends before the username check.
C20_Step ==
  \A c \in Conns :
     (pc[c] \in {"join_found", "join_saved"} /\ dbUp /\ HandlerStep(c)) =>
        /\ pc'[c] \in {"join_saved", "join_check"}
        /\ rooms'[loc[c].roomId].exists
        /\ ~unhandled'
C20_FirstJoinsComplete == [][C20_Step]_vars

\* ================================================== parent pointer claims
\* The step in which the create handler of connection c stores its node.
CreateStores(c) ==
  /\ \/ pc[c] = "file_found" /\ pc'[c] = "file_emit"
     \/ pc[c] = "dir_found" /\ pc'[c] = "dir_emit"
  /\ Len(rooms'[loc[c].roomId].files) = Len(rooms[loc[c].roomId].files) + 1

\* The node a create step stored: the last of the collection.
Stored(c) ==
  rooms'[loc[c].roomId].files[Len(rooms'[loc[c].roomId].files)]

\* C21: a create whose parent reference resolves, by durable or by transient
\* id, to a folder of the room stores a child with parentId equal to the
\* folder's _id and parentOriginalId equal to the folder's originalId.
C21_Step ==
  \A c \in Conns :
     (CreateStores(c) /\ loc[c].parentRef # NullRef) =>
        \A i \in Resolved(rooms[loc[c].roomId].files, loc[c].parentRef) :
           rooms[loc[c].roomId].files[i].type = "folder" =>
              /\ Stored(c).parentId = rooms[loc[c].roomId].files[i].id
              /\ Stored(c).parentOriginalId =
                   rooms[loc[c].roomId].files[i].originalId
C21_BothParentPointers == [][C21_Step]_vars

\* C22: a create whose parent reference resolves to no node of the room
\* (the room was found and the store is reachable) stores the node, and
\* stores it at the root: parentId and parentOriginalId are both null.
C22_Step ==
  \A c \in Conns :
     (/\ pc[c] \in {"file_found", "dir_found"}
      /\ HandlerStep(c)
      /\ loc[c].found /\ dbUp
      /\ loc[c].parentRef # NullRef
      /\ Resolved(rooms[loc[c].roomId].files, loc[c].parentRef) = {}
      /\ Resolved(loc[c].snap, loc[c].parentRef) = {})
     =>
        /\ CreateStores(c)
        /\ Stored(c).parentId = NullRef
        /\ Stored(c).parentOriginalId = NullRef
C22_UnresolvedParentIsRoot == [][C22_Step]_vars

\* ======================================================= lookup tier claims
\* The step in which an updateOne tier of the handler of connection c runs
\* and its filter matches a node.
TierMatches(c) ==
  /\ HandlerStep(c)
  /\ \/ /\ pc'[c] = "upd_t1"
        /\ Tier1Match(loc'[c].roomId, loc'[c].ref) > 0
     \/ /\ pc'[c] = "upd_t2"
        /\ Tier2Match(loc'[c].roomId, loc'[c].ref) > 0

\* C23: a tier whose filter matched a node, also one that already has the
\* new content, is the last tier of its event: the handler takes it as the
\* success, and after a success it goes on to the re-read without another
\* write.
C23_Step ==
  \A c \in Conns :
     /\ TierMatches(c) => loc'[c].mod
     /\ (pc[c] \in {"upd_t1", "upd_t2"} /\ loc[c].mod /\ HandlerStep(c)) =>
           /\ pc'[c] \in {"upd_refresh", "idle"}
           /\ rooms' = rooms
C23_FirstMatchEndsLookup == [][C23_Step]_vars

\* ======================================================= frame claims
\* C24: a directory-deleted event removes from the room's file collection
\* the node whose _id it names and nothing else: every other node, the
\* children of a deleted folder among them, stays where it was with all its
\* fields, its parent pointers included.
C24_Step ==
  \A c \in Conns :
     (pc[c] = "idle" /\ pc'[c] = "ddelete_emit") =>
        LET r == loc'[c].roomId
        IN  rooms'[r].files =
              SelectSeq(rooms[r].files,
                        LAMBDA f : toString(f.id) # loc'[c].ref)
C24_DeleteLeavesChildren == [][C24_Step]_vars

\* A folder that was stored has just been deleted by its durable id, and a
\* node stays in the collection whose parentId is the _id of that folder.
C24_Witness ==
  \E c \in Conns :
     /\ pc[c] = "ddelete_emit"
     /\ loc[c].ref.k = "hex" /\ loc[c].ref.n >= 1 /\ loc[c].ref.n < nextOid
     /\ Resolved(rooms[loc[c].roomId].files, loc[c].ref) = {}
     /\ \E i \in 1..Len(rooms[loc[c].roomId].files) :
           toString(rooms[loc[c].roomId].files[i].parentId) = loc[c].ref

\* ======================================================= identity claims
\* The identifiers of the nodes of a collection that have an _id, in the
\* order of the collection.
Idents(files) ==
  SelectSeq([i \in 1..Len(files) |-> <<files[i].id, files[i].originalId>>],
            LAMBDA p : p[1] # NullRef)

\* No two nodes of a room's collection have the same _id.
UniqueIds ==
  \A r \in RoomIds :
     \A i, j \in 1..Len(Idents(rooms[r].files)) :
        Idents(rooms[r].files)[i][1] = Idents(rooms[r].files)[j][1] => i = j

\* The nodes of room r that stay in its collection over a step keep their
\* _id and their originalId (and their order), and the nodes the step adds
\* have an _id no node had before it.
IdsKept(r) ==
  LET old == Idents(rooms[r].files)
      new == Idents(rooms'[r].files)
      kept == SelectSeq(old, LAMBDA p : \E j \in 1..Len(new) : new[j][1] = p[1])
  IN  /\ Len(kept) <= Len(new)
      /\ SubSeq(new, 1, Len(kept)) = kept
      /\ \A j \in (Len(kept) + 1)..Len(new) :
            \A i \in 1..Len(old) : old[i][1] # new[j][1]

\* C25: across create, rename, update and delete events the _ids of a
\* room's file collection are pairwise different, and a node that stays in
\* the collection keeps the _id and the originalId it was created with.
C25_IdsUniqueAndStable ==
  [] UniqueIds /\ [][\A r \in RoomIds : IdsKept(r)]_vars

\* The room holds two files, stored under different _ids with the transient
\* ids their creators sent, and the content of one has been updated.
C25_Witness ==
  LET files == rooms["r1"].files
  IN  /\ Len(files) = 2
      /\ files[1].id = Oid(1) /\ files[2].id = Oid(2)
      /\ files[1].originalId.k = "uuid" /\ files[2].originalId.k = "uuid"
      /\ \E i \in 1..2 : files[i].content # ""

\* ===================================================== departure claims
\* The registry entry of socket c that a lookup by socket id finds.
EntryOf(c) ==
  userSocketMap[CHOOSE k \in 1..Len(userSocketMap) :
                  /\ userSocketMap[k].socketId = c
                  /\ \A j \in 1..(k - 1) : userSocketMap[j].socketId # c]

\* The socket of connection c closes.
Closes(c) == conn[c] = "open" /\ conn'[c] = "closed"

\* C26: when the socket of a joined connection closes, every other open
\* member of its room is sent user-disconnected with the registry entry of
\* the connection as it was before the step (username, roomId, status,
\* typing, cursorPosition, socketId), and after the step the registry has no
\* entry of the connection.
C26_Step ==
  \A c \in Conns :
     (Closes(c) /\ \E k \in 1..Len(userSocketMap) :
                      userSocketMap[k].socketId = c) =>
        /\ \A d \in ioRooms[EntryOf(c).roomId] \ {c} :
              conn[d] = "open" =>
                 [ev |-> "user-disconnected", to |-> d,
                  data |-> [NoData EXCEPT !.users = <<EntryOf(c)>>]]
                   \in emitted'
        /\ \A m \in emitted' :
              m.ev = "user-disconnected" /\ m.data.users = <<EntryOf(c)>>
        /\ \A k \in 1..Len(userSocketMap') : userSocketMap'[k].socketId # c
C26_DepartureCarriesEntry == [][C26_Step]_vars

\* Socket 1 had signalled offline and has just closed: bob was sent
\* user-disconnected with the entry of socket 1, status offline, and the
\* registry no longer has it.
C26_Witness ==
  /\ conn[1] = "closed"
  /\ \E m \in emitted :
        /\ m.ev = "user-disconnected" /\ m.to = 2
        /\ m.data.users # <<>>
        /\ m.data.users[1].socketId = 1
        /\ m.data.users[1].username = "alice"
        /\ m.data.users[1].status = OFFLINE
  /\ \A k \in 1..Len(userSocketMap) : userSocketMap[k].socketId # 1

\* ================================================= presence mirror claims
\* The handler of a status event that names socket socketId, or of a typing
\* event of socket socketId itself, starts: sent by connection c.
PresenceEvent(c, socketId) ==
  \/ UserOffline(c, socketId)
  \/ UserOnline(c, socketId)
  \/ c = socketId /\ TypingPause(c)
  \/ c = socketId /\ \E p \in Cursors : TypingStart(c, p)

\* C27: a status event that names a socket without a registry entry, and a
\* typing event of a socket without one, changes no registry entry, writes
\* no User record and emits nothing, and its handler ends at once.
C27_Step ==
  \A c, socketId \in Conns :
     (~Joined(userSocketMap, socketId) /\ PresenceEvent(c, socketId)) =>
        /\ userSocketMap' = userSocketMap
        /\ userDocs' = userDocs
        /\ emitted' = {}
        /\ pc' = pc
C27_UnknownIdIsNoOp == [][C27_Step]_vars

\* One event has been handled and nothing is as it would be after an event
\* of a member: no handler is in flight, nothing was emitted, and registry
\* and User records are those the joins left.
C27_Witness ==
  /\ nEvents = 1
  /\ \A c \in Conns : pc[c] = "idle" /\ conn[c] = "open"
  /\ emitted = {}
  /\ userSocketMap = [c \in 1..2 |-> User(c, NameOf(c), "r1")]
  /\ \A c \in 1..2 : /\ userDocs[c][1].status = ONLINE
                     /\ ~userDocs[c][1].typing
  /\ userDocs[3] = <<>>

\* The registry after a step differs from the one before it in the entries
\* of socket c only, and those have the status, typing flag and cursor
\* position given.
EntriesSet(c, status, typing, cursorPosition) ==
  /\ Len(userSocketMap') = Len(userSocketMap)
  /\ \A i \in 1..Len(userSocketMap) :
        userSocketMap'[i] =
          IF userSocketMap[i].socketId = c
          THEN [userSocketMap[i] EXCEPT !.status = status, !.typing = typing,
                                        !.cursorPosition = cursorPosition]
          ELSE userSocketMap[i]

\* The open sockets of room r other than c are exactly those that were sent
\* the event ev in the step, and nothing else was sent.
SentToOthers(c, r, ev) ==
  /\ {m.to : m \in emitted'} = {d \in ioRooms[r] \ {c} : conn[d] = "open"}
  /\ \A m \in emitted' : m.ev = ev

\* The event that the handler at position at will broadcast.
EventAt(at) ==
  CASE at = "offline_emit" -> "offline"
    [] at = "online_emit" -> "online"
    [] at = "tstart_emit" -> "typing-start"
    [] at = "tpause_emit" -> "typing-pause"

\* C28: while the store is down, a status or typing event of a joined
\* connection still changes its registry entries and its handler goes on to
\* the broadcast, with no User record written; the broadcast of such a
\* handler reaches the other open members of the room and leaves the
\* registry as the event set it; and the closing of its socket still removes
\* its entries and tells the other members.
C28_Step ==
  \A c \in Conns :
     /\ (Joined(userSocketMap, c) /\ ~dbUp) =>
          LET e == EntryOf(c)
          IN  /\ UserOffline(c, c) =>
                   /\ EntriesSet(c, OFFLINE, e.typing, e.cursorPosition)
                   /\ pc'[c] = "offline_emit" /\ userDocs' = userDocs
              /\ UserOnline(c, c) =>
                   /\ EntriesSet(c, ONLINE, e.typing, e.cursorPosition)
                   /\ pc'[c] = "online_emit" /\ userDocs' = userDocs
              /\ TypingPause(c) =>
                   /\ EntriesSet(c, e.status, FALSE, e.cursorPosition)
                   /\ pc'[c] = "tpause_emit" /\ userDocs' = userDocs
              /\ \A p \in Cursors :
                    TypingStart(c, p) =>
                       /\ EntriesSet(c, e.status, TRUE, p)
                       /\ pc'[c] = "tstart_emit" /\ userDocs' = userDocs
              /\ Closes(c) =>
                   /\ ~Joined(userSocketMap', c)
                   /\ SentToOthers(c, e.roomId, "user-disconnected")
                   /\ userDocs' = userDocs
     /\ (/\ pc[c] \in {"offline_emit", "online_emit", "tstart_emit",
                       "tpause_emit"}
         /\ pc'[c] = "idle") =>
           /\ SentToOthers(c, loc[c].roomId, EventAt(pc[c]))
           /\ userSocketMap' = userSocketMap
C28_MirrorFailureIsHarmless == [][C28_Step]_vars

\* Socket 1 signalled typing while the store was down: bob was just sent
\* typing-start with the entry of socket 1, the registry has it typing at
\* the new cursor position, and its User record was never written.
C28_Witness ==
  /\ \E m \in emitted :
        /\ m.ev = "typing-start" /\ m.to = 2
        /\ m.data.users # <<>> /\ m.data.users[1].typing
  /\ Joined(userSocketMap, 1)
  /\ EntryOf(1).typing /\ EntryOf(1).cursorPosition = 1
  /\ ~userDocs[1][1].typing /\ userDocs[1][1].cursorPosition = 0

\* ============================================================ chat claims
\* C29: while a room document exists, its chat log only grows at the end: a
\* send-message of a joined connection that reaches the store appends its
\* one message after those already there, and no step removes, changes or
\* reorders a message of the log.
C29_Step ==
  /\ \A r \in RoomIds :
        (rooms[r].exists /\ rooms'[r].exists) =>
           \/ rooms'[r].chatMessages = rooms[r].chatMessages
           \/ /\ Len(rooms'[r].chatMessages) = Len(rooms[r].chatMessages) + 1
              /\ SubSeq(rooms'[r].chatMessages, 1, Len(rooms[r].chatMessages))
                   = rooms[r].chatMessages
  /\ \A c \in Conns, m \in Messages :
        (/\ SendMessage(c, m)
         /\ getRoomId(c) # ""
         /\ dbUp /\ rooms[getRoomId(c)].exists) =>
           rooms'[getRoomId(c)].chatMessages =
             Append(rooms[getRoomId(c)].chatMessages,
                    [username |-> m.username, message |-> m.message,
                     timestamp |-> now])
C29_ChatIsAppendOnly == [][C29_Step]_vars

\* The log of room r1 holds two different messages, the later one last.
C29_Witness ==
  /\ rooms["r1"].exists
  /\ Len(rooms["r1"].chatMessages) >= 2
  /\ rooms["r1"].chatMessages[1].message = "hi"
  /\ rooms["r1"].chatMessages[2].message = "yo"

\* ======================================================= retention claims
\* A step persisted a file, folder, chat or drawing mutation of room r.
Mutated(r) ==
  \/ rooms'[r].files # rooms[r].files
  \/ rooms'[r].chatMessages # rooms[r].chatMessages
  \/ rooms'[r].drawing # rooms[r].drawing

\* C30: every persisted mutation of a room stamps the room's updatedAt with
\* the time of the write, the stamp never goes back, and a room document is
\* removed only when its stamp is more than 30 days old: a cleanup run never
\* removes a room that had a mutation persisted within the last 30 days.
C30_Step ==
  \A r \in RoomIds :
     /\ (rooms[r].exists /\ rooms'[r].exists) =>
           /\ Mutated(r) => rooms'[r].updatedAt = now
           /\ rooms'[r].updatedAt >= rooms[r].updatedAt
     /\ (rooms[r].exists /\ ~rooms'[r].exists) =>
           /\ sched = "idle" /\ sched' = "users"
           /\ rooms[r].updatedAt < now - RetentionDays
C30_ActiveRoomsAreKept == [][C30_Step]_vars

\* A cleanup run on day 31 has just removed room r1, untouched since day 0,
\* and kept room r2, to which a file was added on day 30.
C30_Witness ==
  /\ now = 31
  /\ sched = "users"
  /\ ~rooms["r1"].exists /\ "r1" \in purged
  /\ rooms["r2"].exists
  /\ rooms["r2"].updatedAt = 30
  /\ rooms["r2"].files # <<>>

\* ================================================ folder-structure migration
\* First pass: a node without originalId gets its _id as a string.
withOriginalId(file) ==
  IF file.originalId = NullRef
  THEN [file EXCEPT !.originalId = toString(file.id)]
  ELSE file

\* `instanceof mongoose.Types.ObjectId`
isObjectId(ref) == ref.k = "oid"

\* Second pass, on the files as the first pass left them: a parentId that
\* is no ObjectId is replaced by the _id of the node it names, or by null;
\* a node with an ObjectId parentId and no parentOriginalId gets the
\* parentId as a string.
withParentOriginalId(files, file) ==
  IF file.parentId = NullRef THEN file
  ELSE IF ~isObjectId(file.parentId)
  THEN LET i == ByEitherId(files, file.parentId)
       IN  IF i > 0
           THEN [file EXCEPT !.parentId = files[i].id,
                             !.parentOriginalId =
                                IF files[i].originalId # NullRef
                                THEN files[i].originalId
                                ELSE toString(files[i].id)]
           ELSE [file EXCEPT !.parentId = NullRef,
                             !.parentOriginalId = NullRef]
  ELSE IF file.parentOriginalId = NullRef
  THEN [file EXCEPT !.parentOriginalId = toString(file.parentId)]
  ELSE file

\* A migration that saves every room it reads.
needsUpdate_always(files) == TRUE

\* `needsUpdate` after the two passes.
needsUpdate(files) ==
  \E i \in 1..Len(files) :
     \/ files[i].originalId = NullRef
     \/ /\ files[i].parentId # NullRef
        /\ ~isObjectId(files[i].parentId) \/ files[i].parentOriginalId = NullRef

\* The files of a room after the two passes.
migrateFiles(files) ==
  LET first == [i \in 1..Len(files) |-> withOriginalId(files[i])]
  IN  [i \in 1..Len(files) |-> withParentOriginalId(first, first[i])]

\* One turn of the loop of migrateFolderStructure: the two passes on a room
\* and, when one of them changed a node, room.save(), which runs the
\* pre('save') hook of every node and stamps the room.  The script runs on
\* its own: no handler writes between its read and its save.
MigrateRoom(r) ==
  /\ dbUp
  /\ rooms[r].exists
  /\ rooms' = IF needsUpdate(rooms[r].files)
              THEN [rooms EXCEPT ![r] =
                      Touch([@ EXCEPT !.files =
                         [i \in 1..Len(@) |-> preSave(migrateFiles(@)[i])]])]
              ELSE rooms
  /\ UNCHANGED <<conn, userSocketMap, ioRooms, userDocs, nextOid, now, dbUp,
                 pc, loc, emitted, unhandled, sched, purged, nJoins, nEvents>>

\* The nodes the handlers store as the k-th node of a room: a folder has
\* neither originalId nor parentOriginalId; a file has the id the client
\* gave it, if any, and the parent reference of its event; parentId is null
\* or an ObjectId, that of the first node or of no node of the room.
StoredNodes(k) ==
  {FileNode(Oid(k), NullRef, "a", "folder", "", p, NullRef) :
      p \in {NullRef, Oid(1), Oid(0)}}
  \cup {FileNode(Oid(k), o, "a", "file", "x", pp[1], pp[2]) :
          o \in {NullRef, Uuid(k)},
          pp \in {<<NullRef, NullRef>>, <<NullRef, Uuid(1)>>,
                  <<Oid(1), Uuid(1)>>, <<Oid(1), Hex(1)>>,
                  <<Oid(0), Hex(0)>>}}

\* The file collections of up to n nodes.
RECURSIVE StoredFiles(_)
StoredFiles(n) ==
  IF n = 0 THEN {<<>>}
  ELSE StoredFiles(n - 1)
       \cup {Append(fs, node) : fs \in {f \in StoredFiles(n - 1) : Len(f) = n - 1},
                                node \in StoredNodes(n)}

\* The script starts on a store that holds two rooms the handlers filled;
\* no client is connected.
InitMigrate ==
  /\ conn = [c \in Conns |-> "none"]
  /\ userSocketMap = <<>>
  /\ ioRooms = [r \in RoomIds |-> {}]
  /\ \E f1 \in StoredFiles(MaxFiles), f2 \in StoredFiles(1) :
        rooms = [r \in RoomIds |->
                   [NoRoom EXCEPT !.exists = TRUE,
                                  !.files = IF r = "r1" THEN f1 ELSE f2]]
  /\ userDocs = [c \in Conns |-> <<>>]
  /\ nextOid = MaxFiles + 1
  /\ now = 0
  /\ dbUp = TRUE
  /\ pc = [c \in Conns |-> "idle"]
  /\ loc = [c \in Conns |-> NoLoc]
  /\ emitted = {}
  /\ unhandled = FALSE
  /\ sched = "idle"
  /\ purged = {}
  /\ nJoins = 0
  /\ nEvents = 0

\* Runs of the migration, room by room, on one day or another.
NextMigrate ==
  \/ \E r \in RoomIds : MigrateRoom(r)
  \/ \E t \in Instants : Tick(t)

SpecMigrate == InitMigrate /\ [][NextMigrate]_vars

\* ======================================================== isolation claims
\* Tree, chat and drawing events sent from both rooms: by alice in r1 and by
\* the member of r2, with bob listening in r1.
RoomSenders == {1, 3}

NextRooms ==
  \/ \E c \in RoomSenders : FileCreated(c, NullRef, Uuid(1))
  \/ \E c \in RoomSenders : FileAfterFind(c)
  \/ \E c \in RoomSenders : FileEmit(c)
  \/ \E c \in RoomSenders, id \in {Hex(1), Hex(2)} :
        DirectoryRenamed(c, id, "a")
  \/ \E c \in RoomSenders : DirectoryRenamedEmit(c)
  \/ \E c \in RoomSenders :
        SendMessage(c, [username |-> "alice", message |-> "hi"])
  \/ \E c \in RoomSenders : SendMessageEmit(c)
  \/ \E c \in RoomSenders : DrawingUpdate(c, "d")
  \/ \E c \in RoomSenders : DrawingUpdateEmit(c)
  \/ \E c \in RoomSenders, d \in Conns : SyncFileStructure(c, d)
  \/ \E c \in RoomSenders, d \in Conns : SyncDrawing(c, d)
  \/ \E c \in RoomSenders : RequestDrawing(c)

SpecRooms == InitTree /\ [][NextRooms]_vars

\* The connection takes a step of a tree, chat or drawing handler.
RoomEvent(c) ==
  \/ HandlerStep(c)
  \/ \E d \in Conns : SyncFileStructure(c, d) \/ SyncDrawing(c, d)
  \/ RequestDrawing(c)

\* C32: a tree, chat or drawing event sent by a connection joined to room R
\* changes no room document but that of R and is delivered to no connection
\* outside R.
C32_Step ==
  \A c \in Conns :
     (RoomEvent(c) /\ getRoomId(c) # "") =>
        /\ \A r \in RoomIds \ {getRoomId(c)} : rooms'[r] = rooms[r]
        /\ \A m \in emitted' : m.to \in ioRooms[getRoomId(c)]
C32_RoomIsolation == [][C32_Step]_vars

\* ========================================================= registry claims
\* The positions of the registry that hold an entry of the connection.
EntriesOf(c) ==
  {i \in DOMAIN userSocketMap : userSocketMap[i].socketId = c}

\* C33: the registry holds at most one entry per connection id, also after
\* a connection has sent join-request more than once.
C33_OneEntryPerConnection ==
  \A c \in Conns : Cardinality(EntriesOf(c)) <= 1

\* C34: once no handler is in flight, every durable User record with status
\* online is that of a connection with a registry entry.
C34_OnlineRecordHasEntry ==
  (\A c \in Conns : pc[c] = "idle") =>
     \A c \in Conns : \A k \in DOMAIN userDocs[c] :
        userDocs[c][k].status = ONLINE => EntriesOf(c) # {}

\* A step of the handler of a user-offline or user-online event sent by
\* connection a.
SignalStep(a) ==
  \/ \E socketId \in Conns : UserOffline(a, socketId) \/ UserOnline(a, socketId)
  \/ UserOfflineEmit(a)
  \/ UserOnlineEmit(a)

\* C35: a user-offline or user-online event sent by connection A, whatever
\* socketId its payload names, changes neither the registry entries nor the
\* User records of another connection, and is broadcast only in a room A is
\* joined to.
C35_Step ==
  \A a \in Conns :
     SignalStep(a) =>
        /\ \A b \in Conns \ {a} :
              /\ SelectSeq(userSocketMap', LAMBDA u : u.socketId = b)
                   = SelectSeq(userSocketMap, LAMBDA u : u.socketId = b)
              /\ userDocs'[b] = userDocs[b]
        /\ \A m \in emitted' :
              \E i \in EntriesOf(a) : m.to \in ioRooms[userSocketMap[i].roomId]
C35_OwnPresenceOnly == [][C35_Step]_vars

\* The connections with a registry entry for username u in room r.
HoldingConns(r, u) ==
  {d \in Conns : \E i \in EntriesOf(d) :
      userSocketMap[i].roomId = r /\ userSocketMap[i].username = u}

\* C36: a join request for a username is accepted when every connection
\* that held the username in the room has disconnected, and is refused
\* while another connection that has not disconnected holds it, whatever
\* status that connection has signalled.
C36_Step ==
  \A c \in Conns :
     (pc[c] = "join_check" /\ HandlerStep(c)) =>
        LET held == HoldingConns(loc[c].roomId, loc[c].username)
            accepted == Len(userSocketMap') = Len(userSocketMap) + 1
        IN  /\ (\A d \in held : conn[d] = "closed") => accepted
            /\ (\E d \in held \ {c} : conn[d] = "open") => ~accepted
C36_NameHeldWhileJoined == [][C36_Step]_vars

\* ========================================================= creation claims
\* The save of a create event of connection c reaches the store.
CreateSaves(c) ==
  /\ HandlerStep(c)
  /\ pc[c] \in {"dir_found", "file_found"}
  /\ loc[c].found
  /\ dbUp
  /\ rooms[loc[c].roomId].exists

\* C37: the save of a file-created or directory-created event adds its node
\* to the file collection as the store holds it at the time of the save,
\* also when another create was persisted since the handler read the room:
\* every node stored before is still there, unchanged, and the new node has
\* a durable id that none of them has.
C37_Step ==
  \A c \in Conns :
     CreateSaves(c) =>
        LET old == rooms[loc[c].roomId].files
            new == rooms'[loc[c].roomId].files
        IN  /\ Len(new) = Len(old) + 1
            /\ SubSeq(new, 1, Len(old)) = old
            /\ \A i \in 1..Len(old) : old[i].id # new[Len(new)].id
C37_NoCreateIsLost == [][C37_Step]_vars

\* Two handlers read the room while it had no node, both have saved, and
\* both nodes are stored.
C37_Witness ==
  /\ pc[1] \in {"dir_emit", "file_emit"}
  /\ pc[2] \in {"dir_emit", "file_emit"}
  /\ loc[1].snapV = 0
  /\ loc[2].snapV = 0
  /\ Len(rooms["r1"].files) = 2
  /\ rooms["r1"].files[1].id # rooms["r1"].files[2].id

\* C38: the durable id a file-created broadcast carries is the id the
\* handler took from its save, and that is the durable id of the node this
\* save added to the room's file collection, also when the collection had
\* changed since the handler read it.
C38_Step ==
  \A c \in Conns :
     /\ (CreateSaves(c) /\ pc[c] = "file_found") =>
           LET new == rooms'[loc[c].roomId].files
           IN  /\ new[Len(new)].id = loc'[c].oid
               /\ \A i \in 1..(Len(new) - 1) : new[i].id # loc'[c].oid
     /\ (HandlerStep(c) /\ pc[c] = "file_emit") =>
           \A m \in emitted' : m.ev = "file-created" /\ m.data.oid = loc[c].oid
C38_BroadcastIdIsOwnNode == [][C38_Step]_vars

\* Alice's handler read the room while it had no node; another create was
\* persisted before her save; her node is stored second and she is about to
\* broadcast its durable id.
C38_Witness ==
  /\ pc[1] = "file_emit"
  /\ loc[1].snap = <<>>
  /\ Len(rooms["r1"].files) = 2
  /\ rooms["r1"].files[2].id = loc[1].oid
  /\ rooms["r1"].files[1].id # loc[1].oid

\* ======================================================== migration claims
\* Every node has an originalId, and a parentOriginalId when it has a
\* parentId.
Normalised(files) ==
  \A i \in 1..Len(files) :
     /\ files[i].originalId # NullRef
     /\ files[i].parentId # NullRef => files[i].parentOriginalId # NullRef

\* C39: a turn of the migration leaves its room with every node holding an
\* originalId and, if it has a parentId, a parentOriginalId; it changes no
\* node's durable id, name or content, adds and removes no node and leaves
\* the other rooms alone; on a room already in that form it writes nothing.
C39_Step ==
  \A r \in RoomIds :
     MigrateRoom(r) =>
        LET old == rooms[r].files
            new == rooms'[r].files
        IN  /\ Normalised(new)
            /\ Len(new) = Len(old)
            /\ \A i \in 1..Len(old) :
                  /\ new[i].id = old[i].id
                  /\ new[i].name = old[i].name
                  /\ new[i].content = old[i].content
            /\ \A q \in RoomIds \ {r} : rooms'[q] = rooms[q]
            /\ Normalised(old) => rooms' = rooms
C39_MigrationNormalisesOnce == [][C39_Step]_vars

\* Room r1 was migrated on day 30: its first node, a folder, got its _id as
\* originalId and its second node the parent's id as parentOriginalId; a
\* day later it is still as that run left it.
C39_Witness ==
  /\ now = 31
  /\ rooms["r1"].updatedAt = 30
  /\ Len(rooms["r1"].files) = 2
  /\ rooms["r1"].files[1].originalId = Hex(1)
  /\ rooms["r1"].files[2].parentId = Oid(1)
  /\ rooms["r1"].files[2].parentOriginalId = Hex(1)
  /\ rooms["r1"].files[2].type = "folder"

\* ======================================================= scheduling claims
\* C31: a step of a scheduler duty taken while the store is unreachable
\* leaves the process running, with its sockets and handlers, and leaves
\* the cleanup ready for its next run.
C31_Step ==
  (~dbUp /\ (CleanupRooms \/ CleanupExit \/ CleanupUsers
             \/ VerifyDatabaseIntegrity)) =>
     /\ sched' = "idle"
     /\ conn' = conn
     /\ pc' = pc
     /\ userSocketMap' = userSocketMap
C31_RunFailureIsSurvived == [][C31_Step]_vars
====
